---- MODULE Spec2Model ----
(***************************************************************************)
(* Model of the HTML-to-table extraction core of the cricket scraper:      *)
(*   core/commentary_parser.py  (CommentaryParser)                         *)
(*   core/metadata_extractor.py (MetadataExtractor)                        *)
(*                                                                         *)
(* A Python str is modelled as a sequence of one-character strings, so     *)
(* that lower(), strip(), split() and the "in" substring test are computed *)
(* character by character as the library computes them.  Python's None is  *)
(* the one-element sequence None, which no text can equal (its element is  *)
(* not a single character).                                                *)
(***************************************************************************)
EXTENDS Integers, Sequences, FiniteSets, TLC

VARIABLES pc,          \* position of the modelled call
          all_text,    \* _clean_photo_markers: the field list passed in
          cleaned,     \* _clean_photo_markers: the field list returned
          idx,         \* parse_commentary: index of the next block
          data,        \* parse_commentary: rows kept so far
          normalized,  \* parse_commentary: value returned
          df,          \* to_dataframe: records returned
          event,       \* extract_bowler_batsman: argument
          names,       \* extract_bowler_batsman: <<bowler, batsman>> returned
          match_id,        \* extract_player_names: argument
          batting_tables,  \* extract_player_names: the batting scorecard tables of the page
          bowling_tables,  \* extract_player_names: bowling_only_tables
          batting_teams,   \* extract_player_names: team of each innings
          table_idx,       \* extract_player_names: idx of the table loops
          all_players,     \* extract_player_names: entries extracted so far
          df_unique,       \* extract_player_names: roster returned
          resolver_table,    \* _extract_team_name_from_table: argument table
          resolver_innings,  \* _extract_team_name_from_table: argument innings_number
          resolved_team,     \* _extract_team_name_from_table: value returned
          raw_team,          \* _clean_team_name: argument team_name
          clean_team,        \* _clean_team_name: value returned
          td_element,        \* _is_impact_player: argument td_element
          impact_player,     \* _is_impact_player: value returned
          raw_name,          \* _clean_player_name: argument
          clean_name,        \* _clean_player_name: value returned
          second_name,       \* _clean_player_name: value returned for clean_name
          details_rows,      \* extract_metadata: match_details_rows, the spans of each row
          details_id,        \* extract_metadata: argument match_id
          row_idx,           \* extract_metadata: index of the next row
          metadata,          \* extract_metadata: the mapping built and returned
          tracker_db,            \* raw.match_download_tracker: status by match_id
          tracker_cache,         \* MatchTracker._cache
          tracker_calls,         \* the calls made on the tracker
          exists_id,             \* MatchTracker.exists: argument match_id of the last call
          exists_answer,         \* MatchTracker.exists: value returned by the last call
          schedule_page,         \* the hrefs of the schedule page
          run_no,                \* scrape_cricket_data: the number of the run
          load_attempt,          \* _load_page_with_retry: attempt
          schedule_retry_count,  \* scrape_cricket_data: schedule_retry_count
          schedule_fetches,      \* the calls of fetch_hrefs made in this run
          schedule_loaded,       \* the schedule page was loaded in this run
          scorecard_links,       \* scrape_cricket_data: scorecard_links
          link_idx,              \* scrape_cricket_data: idx of the loop over the links
          results,               \* scrape_cricket_data: results
          retry_match,           \* scrape_match_with_retry: match_id
          max_retries,           \* scrape_match_with_retry: max_retries
          retry_count,           \* scrape_match_with_retry: retry_count
          attempts,              \* the calls of MatchScraper.scrape made for the match
          open_drivers,          \* the WebDrivers started and not yet quit
          error,                 \* the exception being raised, None without one
          outcome                \* scrape_match_with_retry: the pair returned

commentaryVars == <<all_text, cleaned, idx, data, normalized, df, event, names>>

rosterVars == <<match_id, batting_tables, bowling_tables, batting_teams,
                table_idx, all_players, df_unique>>

teamVars == <<resolver_table, resolver_innings, resolved_team, raw_team, clean_team>>

nameVars == <<raw_name, clean_name, second_name>>

cellVars == <<td_element, impact_player>>

metaVars == <<details_rows, details_id, row_idx, metadata>>

runVars == <<tracker_db, schedule_page, run_no, load_attempt, schedule_retry_count,
             schedule_fetches, schedule_loaded, scorecard_links, link_idx, results>>

retryVars == <<retry_match, max_retries, retry_count, attempts, open_drivers, error, outcome>>

cacheVars == <<tracker_cache, tracker_calls, exists_id, exists_answer>>

pipelineVars == <<runVars, retryVars, cacheVars>>

parserVars == <<commentaryVars, rosterVars, teamVars, nameVars, cellVars, metaVars>>

serviceVars == <<teamVars, nameVars, cellVars, metaVars, pipelineVars>>

vars == <<pc, commentaryVars, rosterVars, serviceVars>>

\* the variables of the calls a behaviour does not make keep these values
RosterIdle ==
    /\ match_id = 0
    /\ batting_tables = <<>> /\ bowling_tables = <<>>
    /\ batting_teams = <<>> /\ table_idx = 0
    /\ all_players = <<>> /\ df_unique = <<>>

CommentaryIdle ==
    /\ all_text = <<>> /\ cleaned = <<>>
    /\ idx = 0 /\ data = <<>> /\ normalized = <<>> /\ df = <<>>
    /\ event = <<>> /\ names = <<>>

TeamIdle ==
    /\ resolver_table = <<>> /\ resolver_innings = 0 /\ resolved_team = <<>>
    /\ raw_team = <<>> /\ clean_team = <<>>

NameIdle == raw_name = <<>> /\ clean_name = <<>> /\ second_name = <<>>

CellIdle == td_element = <<>> /\ impact_player = FALSE

MetaIdle == details_rows = <<>> /\ details_id = <<>> /\ row_idx = 0 /\ metadata = <<>>

RunIdle ==
    /\ tracker_db = <<>> /\ schedule_page = <<>> /\ run_no = 0
    /\ load_attempt = 0 /\ schedule_retry_count = 0 /\ schedule_fetches = 0
    /\ schedule_loaded = FALSE /\ scorecard_links = <<>> /\ link_idx = 0
    /\ results = <<>>

RetryIdle ==
    /\ retry_match = <<>> /\ max_retries = 0 /\ retry_count = 0 /\ attempts = 0
    /\ open_drivers = {} /\ error = <<>> /\ outcome = <<>>

\* self._cache = None
NoCache == [loaded |-> FALSE, ids |-> {}]

CacheIdle ==
    /\ tracker_cache = NoCache /\ tracker_calls = 0
    /\ exists_id = <<>> /\ exists_answer = FALSE

PipelineIdle == RunIdle /\ RetryIdle /\ CacheIdle

ParserIdle == CommentaryIdle /\ RosterIdle /\ TeamIdle /\ NameIdle /\ CellIdle /\ MetaIdle

ServiceIdle == TeamIdle /\ NameIdle /\ CellIdle /\ MetaIdle /\ PipelineIdle

-----------------------------------------------------------------------------
(* Bounds of the model *)

MaxFields == 4

MaxBlocks == 5

MaxTables == 2

\* for level in range(10)
AncestorLevels == 10

\* batting_position of an entry that has none (positions start at 1)
NoPosition == 0

-----------------------------------------------------------------------------
(* Python str primitives *)

None == <<"None">>

UpperLetters == <<"A","B","C","D","E","F","G","H","I","J","K","L","M",
                  "N","O","P","Q","R","S","T","U","V","W","X","Y","Z">>

LowerLetters == <<"a","b","c","d","e","f","g","h","i","j","k","l","m",
                  "n","o","p","q","r","s","t","u","v","w","x","y","z">>

LowerChar(c) ==
    IF \E i \in 1..26 : UpperLetters[i] = c
    THEN LowerLetters[CHOOSE i \in 1..26 : UpperLetters[i] = c]
    ELSE c

Lower(s) == [i \in 1..Len(s) |-> LowerChar(s[i])]

\* str.isspace(); "U+00A0" names the no-break space
IsSpace(c) == c \in {" ", "\t", "\n", "\r", "U+00A0"}

RECURSIVE LStrip(_)
LStrip(s) == IF s # <<>> /\ IsSpace(Head(s)) THEN LStrip(Tail(s)) ELSE s

RECURSIVE RStrip(_)
RStrip(s) ==
    IF s # <<>> /\ IsSpace(s[Len(s)]) THEN RStrip(SubSeq(s, 1, Len(s) - 1))
    ELSE s

Strip(s) == RStrip(LStrip(s))

\* index of the first occurrence of sub in s, 0 when there is none (str.find + 1)
Find(s, sub) ==
    LET hits == {i \in 1..(Len(s) - Len(sub) + 1) :
                    SubSeq(s, i, i + Len(sub) - 1) = sub}
    IN  IF hits = {} THEN 0
        ELSE CHOOSE i \in hits : \A j \in hits : i <= j

Contains(s, sub) == Find(s, sub) # 0

-----------------------------------------------------------------------------
(* CommentaryParser._clean_photo_markers *)

PhotoMarker == <<"s","e","e"," ","a","l","l"," ","p","h","o","t","o">>

\* current and 'see all photo' in current.lower()
IsPhotoMarker(current) == current # <<>> /\ Contains(Lower(current), PhotoMarker)

\* the emptiness test without the strip(): only '' counts as empty
IsBlankNoStrip(next_element) == next_element = <<>>

\* not next_element or not next_element.strip()
IsBlank(next_element) == next_element = <<>> \/ Strip(next_element) = <<>>

\* the scan with the "next element has content" branch stepping over that
\* element unexamined (it is kept and i advances by 2)
RECURSIVE CleanFromKeepNext(_, _)
CleanFromKeepNext(t, i) ==
    IF i > Len(t) THEN <<>>
    ELSE IF IsPhotoMarker(t[i])
         THEN IF i + 1 <= Len(t)
              THEN IF IsBlank(t[i + 1])
                   THEN CleanFromKeepNext(t, i + 2)
                   ELSE <<t[i + 1]>> \o CleanFromKeepNext(t, i + 2)
              ELSE CleanFromKeepNext(t, i + 1)
         ELSE <<t[i]>> \o CleanFromKeepNext(t, i + 1)

RECURSIVE CleanFrom(_, _)
CleanFrom(t, i) ==
    IF i > Len(t) THEN <<>>
    ELSE IF IsPhotoMarker(t[i])
         THEN IF i + 1 <= Len(t)
              THEN IF IsBlank(t[i + 1])
                   THEN CleanFrom(t, i + 2)
                   ELSE CleanFrom(t, i + 1)
              ELSE CleanFrom(t, i + 1)
         ELSE <<t[i]>> \o CleanFrom(t, i + 1)

_clean_photo_markers(t) == IF t = <<>> THEN t ELSE CleanFrom(t, 1)

\* texts a field can hold, by the cases the cleanup distinguishes
sSeeAllPhotos == <<"S","e","e"," ","a","l","l"," ","p","h","o","t","o","s">>
sSEEALLPHOTO  == <<"S","E","E"," ","A","L","L"," ","P","H","O","T","O">>
sSeeAll       == <<"s","e","e"," ","a","l","l">>
sSpace        == <<" ">>
sFour         == <<"4">>

FieldTexts == {sSeeAllPhotos, sSEEALLPHOTO, sSeeAll, <<>>, sSpace, sFour}

FieldLists == UNION {[1..n -> FieldTexts] : n \in 0..MaxFields}

InitClean ==
    /\ pc = "clean"
    /\ all_text \in FieldLists
    /\ cleaned = <<>>
    /\ idx = 0 /\ data = <<>> /\ normalized = <<>> /\ df = <<>>
    /\ event = <<>> /\ names = <<>>
    /\ RosterIdle /\ ServiceIdle

CleanPhotoMarkers ==
    /\ pc = "clean"
    /\ cleaned' = _clean_photo_markers(all_text)
    /\ pc' = "cleaned"
    /\ UNCHANGED <<all_text, idx, data, normalized, df, event, names, rosterVars, serviceVars>>

NextClean == CleanPhotoMarkers

SpecClean == InitClean /\ [][NextClean]_vars

-----------------------------------------------------------------------------
(* CommentaryParser._normalize_columns *)

\* the keys of column_counts in insertion order: the distinct row lengths
\* in order of first appearance
RECURSIVE ColumnKeys(_)
ColumnKeys(rows) ==
    IF rows = <<>> THEN <<>>
    ELSE LET front == ColumnKeys(SubSeq(rows, 1, Len(rows) - 1))
             count == Len(rows[Len(rows)])
         IN  IF \E k \in 1..Len(front) : front[k] = count
             THEN front
             ELSE Append(front, count)

\* column_counts[count]
ColumnCount(rows, count) ==
    Cardinality({i \in 1..Len(rows) : Len(rows[i]) = count})

\* the least frequent length instead of the most frequent one
TargetColumnsMin(rows) ==
    LET keys == ColumnKeys(rows)
        k    == CHOOSE i \in 1..Len(keys) :
                  /\ \A j \in 1..Len(keys) :
                        ColumnCount(rows, keys[j]) >= ColumnCount(rows, keys[i])
                  /\ \A j \in 1..(i - 1) :
                        ColumnCount(rows, keys[j]) > ColumnCount(rows, keys[i])
    IN  keys[k]

\* the smallest of the lengths that share the largest count
TargetColumnsSmallestTied(rows) ==
    LET keys == ColumnKeys(rows)
        k    == CHOOSE i \in 1..Len(keys) :
                  /\ \A j \in 1..Len(keys) :
                        ColumnCount(rows, keys[j]) <= ColumnCount(rows, keys[i])
                  /\ \A j \in 1..Len(keys) :
                        ColumnCount(rows, keys[j]) = ColumnCount(rows, keys[i])
                            => keys[i] <= keys[j]
    IN  keys[k]

\* max(column_counts) without the key function: the largest length
TargetColumnsLargest(rows) ==
    LET keys == ColumnKeys(rows)
        k    == CHOOSE i \in 1..Len(keys) : \A j \in 1..Len(keys) : keys[j] <= keys[i]
    IN  keys[k]

\* max(column_counts, key=column_counts.get): the first key, in insertion
\* order, whose count is the largest
TargetColumns(rows) ==
    LET keys == ColumnKeys(rows)
        k    == CHOOSE i \in 1..Len(keys) :
                  /\ \A j \in 1..Len(keys) :
                        ColumnCount(rows, keys[j]) <= ColumnCount(rows, keys[i])
                  /\ \A j \in 1..(i - 1) :
                        ColumnCount(rows, keys[j]) < ColumnCount(rows, keys[i])
    IN  keys[k]

EmptyFields(n) == [i \in 1..n |-> <<>>]

\* the padding appended after the last column instead of inserted before it
NormalizeRowPadAfter(row, target_columns) ==
    IF Len(row) = target_columns THEN row
    ELSE IF Len(row) < target_columns
         THEN row \o EmptyFields(target_columns - Len(row))
         ELSE SubSeq(row, 1, target_columns)

\* the truncation keeping the commentary: row[:target-1] + [row[-1]]
NormalizeRowKeepLast(row, target_columns) ==
    IF Len(row) = target_columns THEN row
    ELSE IF Len(row) < target_columns
         THEN IF Len(row) > 0
              THEN SubSeq(row, 1, Len(row) - 1)
                       \o EmptyFields(target_columns - Len(row))
                       \o <<row[Len(row)]>>
              ELSE EmptyFields(target_columns)
         ELSE SubSeq(row, 1, target_columns - 1) \o <<row[Len(row)]>>

\* the body of the loop over data
NormalizeRow(row, target_columns) ==
    IF Len(row) = target_columns THEN row
    ELSE IF Len(row) < target_columns
         THEN IF Len(row) > 0
              THEN SubSeq(row, 1, Len(row) - 1)
                       \o EmptyFields(target_columns - Len(row))
                       \o <<row[Len(row)]>>
              ELSE EmptyFields(target_columns)
         ELSE SubSeq(row, 1, target_columns)

_normalize_columns(rows) ==
    IF rows = <<>> THEN <<>>
    ELSE [i \in 1..Len(rows) |-> NormalizeRow(rows[i], TargetColumns(rows))]

-----------------------------------------------------------------------------
(* CommentaryParser.extract_bowler_batsman *)

SepTo == <<" ","t","o"," ">>
Comma == <<",">>

\* str.split(sep): the segments between non-overlapping occurrences of sep,
\* found left to right
RECURSIVE Split(_, _)
Split(s, sep) ==
    LET i == Find(s, sep)
    IN  IF i = 0 THEN <<s>>
        ELSE <<SubSeq(s, 1, i - 1)>> \o Split(SubSeq(s, i + Len(sep), Len(s)), sep)

\* pd.isna(event)
IsNa(v) == v = None

\* the batsman taken from the last segment instead of parts[1]
extract_bowler_batsman_last(ev) ==
    IF IsNa(ev) \/ ev = <<>> THEN <<None, None>>
    ELSE LET parts == Split(ev, SepTo)
             last  == parts[Len(parts)]
         IN  IF Len(parts) < 2 THEN <<None, None>>
             ELSE <<Strip(parts[1]),
                    IF Contains(last, Comma)
                    THEN Strip(Split(last, Comma)[1])
                    ELSE Strip(last)>>

extract_bowler_batsman(ev) ==
    IF IsNa(ev) \/ ev = <<>> THEN <<None, None>>
    ELSE LET parts == Split(ev, SepTo)
         IN  IF Len(parts) < 2 THEN <<None, None>>
             ELSE <<Strip(parts[1]),
                    IF Contains(parts[2], Comma)
                    THEN Strip(Split(parts[2], Comma)[1])
                    ELSE Strip(parts[2])>>

-----------------------------------------------------------------------------
(* CommentaryParser.to_dataframe *)

\* df.shape[1] of pd.DataFrame(parsed_data): the longest row
NumColumns(rows) ==
    CHOOSE n \in {Len(rows[i]) : i \in 1..Len(rows)} :
        \A i \in 1..Len(rows) : Len(rows[i]) <= n

\* a cell of pd.DataFrame(parsed_data); a row shorter than the frame is
\* filled with None
Cell(row, k) == IF k <= Len(row) THEN row[k] ELSE None

MakeRecord(row, commentary) ==
    [match_ball_number |-> Cell(row, 1),
     Event             |-> Cell(row, 2),
     Ball              |-> Cell(row, 3),
     Commentary        |-> commentary,
     Bowler            |-> extract_bowler_batsman(Cell(row, 2))[1],
     Batsman           |-> extract_bowler_batsman(Cell(row, 2))[2]]

\* the Commentary column of a 7-column frame without the fill from Extra
Commentary7NoFill(row) == Cell(row, 7)

\* row['Extra'] if pd.isna(row['Commentary']) or row['Commentary'] == "" else row['Commentary']
Commentary7(row) ==
    IF IsNa(Cell(row, 7)) \/ Cell(row, 7) = <<>> THEN Cell(row, 6) ELSE Cell(row, 7)

\* the frame mapped as 6 columns whatever its width
to_dataframe_any_width(parsed_data) ==
    IF parsed_data = <<>> THEN <<>>
    ELSE [i \in 1..Len(parsed_data) |->
             MakeRecord(parsed_data[i], Cell(parsed_data[i], 6))]

to_dataframe(parsed_data) ==
    IF parsed_data = <<>> THEN <<>>
    ELSE IF NumColumns(parsed_data) = 6
         THEN [i \in 1..Len(parsed_data) |->
                  MakeRecord(parsed_data[i], Cell(parsed_data[i], 6))]
         ELSE IF NumColumns(parsed_data) = 7
              THEN [i \in 1..Len(parsed_data) |->
                       MakeRecord(parsed_data[i], Commentary7(parsed_data[i]))]
              ELSE <<>>

-----------------------------------------------------------------------------
(* CommentaryParser.parse_commentary *)

Digits == <<"0","1","2","3","4","5","6","7","8","9">>

\* str(idx)
RECURSIVE IntToStr(_)
IntToStr(n) ==
    IF n < 10 THEN <<Digits[n + 1]>>
    ELSE IntToStr(n \div 10) \o <<Digits[(n % 10) + 1]>>

\* text.replace(",", "-")
CommaToDash(s) == [i \in 1..Len(s) |-> IF s[i] = "," THEN "-" ELSE s[i]]

Delimiter == <<"#","*","*","#">>

\* '#**#'.join(parts)
RECURSIVE Join(_)
Join(parts) ==
    IF parts = <<>> THEN <<>>
    ELSE IF Len(parts) = 1 THEN parts[1]
         ELSE parts[1] \o Delimiter \o Join(Tail(parts))

UnwantedTerms == {<<"p","h","o","t","o","s">>, <<"s","e","e"," ","a","l","l">>,
                  <<"i","m","a","g","e">>, <<"g","a","l","l","e","r","y">>}

RECURSIVE SelectWanted(_)
SelectWanted(spans) ==
    IF spans = <<>> THEN <<>>
    ELSE IF \E term \in UnwantedTerms : Contains(Lower(Head(spans)), term)
         THEN SelectWanted(Tail(spans))
         ELSE <<Head(spans)>> \o SelectWanted(Tail(spans))

\* steps 3 and 4: the joined p/strong texts, or the rest of the block's text
CombinedCommentary(block) ==
    LET joined == Join([i \in 1..Len(block.parts) |-> CommaToDash(block.parts[i])])
    IN  IF Strip(joined) = <<>>
        THEN IF block.remaining # <<>> THEN block.remaining ELSE joined
        ELSE joined

\* the row built for block number i
BuildRow(i, block) ==
    IF block.header # <<>>
    THEN <<IntToStr(i)>> \o <<block.header>> \o SelectWanted(block.spans)
             \o <<CombinedCommentary(block)>>
    ELSE <<IntToStr(i)>> \o SelectWanted(block.spans)
             \o <<CombinedCommentary(block)>>

NonEmptyCount(row) == Cardinality({k \in 1..Len(row) : row[k] # <<>>})

\* the test that keeps a row with one non-empty field
MeaningfulOne(row) == row # <<>> /\ NonEmptyCount(row) >= 1

\* all_text and len([x for x in all_text if x]) >= 2
Meaningful(row) == row # <<>> /\ NonEmptyCount(row) >= 2

sBumrahKohli == <<"B","u","m","r","a","h"," ","t","o"," ","K","o","h","l","i",",",
                  " ","n","o"," ","r","u","n">>
sStarcGill   == <<"S","t","a","r","c"," ","t","o"," ","G","i","l","l",","," ","S","I","X">>
sNoRun       == <<"n","o"," ","r","u","n">>
sBall1       == <<"0",".","1">>
sBall2       == <<"0",".","2">>
sBall3       == <<"0",".","3">>
sBall4       == <<"0",".","4">>
sZero        == <<"0">>
sSix         == <<"6">>
sWicket      == <<"W">>
sScore1      == <<"1","/","0">>
sGoodBall    == <<"g","o","o","d"," ","b","a","l","l">>
sSixRuns     == <<"s","i","x"," ","r","u","n","s">>
sInTheSlot   == <<"i","n"," ","t","h","e"," ","s","l","o","t",","," ","g","o","n","e">>
sFull        == <<"f","u","l","l">>
sOut         == <<"O","U","T">>

\* what BeautifulSoup yields for one commentary block: the header text, the
\* span texts, the p and strong texts, and the block text left once header
\* and spans are taken out (used when there is no p or strong text)
Block(h, sp, pt, rem) == [header |-> h, spans |-> sp, parts |-> pt, remaining |-> rem]

Blocks ==
    { Block(sBumrahKohli, <<sBall1, sZero>>, <<sGoodBall>>, <<>>),
      Block(sStarcGill, <<sBall2, sSix, sScore1>>, <<sInTheSlot>>, <<>>),
      Block(sNoRun, <<sBall3, sSix, sScore1, sSixRuns>>, <<>>, <<>>),
      Block(sBumrahKohli, <<sBall4, sWicket, sSeeAllPhotos, sScore1, <<>>>>,
            <<sFull, sOut>>, <<>>),
      Block(<<>>, <<sBall1>>, <<sSeeAllPhotos>>, <<>>),
      Block(<<>>, <<>>, <<sSeeAllPhotos>>, <<>>),
      Block(<<>>, <<>>, <<>>, <<>>) }

InitCommentary ==
    /\ pc = "parse"
    /\ idx = 0 /\ data = <<>> /\ normalized = <<>> /\ df = <<>>
    /\ all_text = <<>> /\ cleaned = <<>>
    /\ event = <<>> /\ names = <<>>
    /\ RosterIdle /\ ServiceIdle

\* an exception that no except clause catches leaves the function
Uncaught(label) == "raised"

\* try: ... except Exception as e: log and return the empty result; the call
\* ends in its handler, at the position label
Caught(label) == label

\* one iteration of the loop over blocks
ParseBlock ==
    /\ pc = "parse"
    /\ idx < MaxBlocks
    /\ \E block \in Blocks :
          /\ all_text' = BuildRow(idx, block)
          /\ cleaned' = _clean_photo_markers(all_text')
          /\ data' = IF Meaningful(cleaned') THEN Append(data, cleaned') ELSE data
    /\ idx' = idx + 1
    /\ UNCHANGED <<pc, normalized, df, event, names, rosterVars, serviceVars>>

\* an exception while a block is read: the block is skipped (continue)
BlockRaises ==
    /\ pc = "parse"
    /\ idx < MaxBlocks
    /\ idx' = idx + 1
    /\ UNCHANGED <<pc, all_text, cleaned, data, normalized, df, event, names,
                   rosterVars, serviceVars>>

\* an exception outside the loop body, from building the soup to the
\* normalization: return []
ParseRaises ==
    /\ pc = "parse"
    /\ normalized' = <<>>
    /\ pc' = Caught("parse_failed")
    /\ UNCHANGED <<all_text, cleaned, idx, data, df, event, names, rosterVars, serviceVars>>

\* the end of parse_commentary: [] without blocks, else the normalized rows
ReturnNormalized ==
    /\ pc = "parse"
    /\ normalized' = IF idx = 0 THEN <<>> ELSE _normalize_columns(data)
    /\ pc' = "parsed"
    /\ UNCHANGED <<all_text, cleaned, idx, data, df, event, names, rosterVars, serviceVars>>

\* to_dataframe on the value parse_commentary returned
ToDataframe ==
    /\ pc = "parsed"
    /\ df' = to_dataframe(normalized)
    /\ pc' = "mapped"
    /\ UNCHANGED <<all_text, cleaned, idx, data, normalized, event, names, rosterVars, serviceVars>>

\* an exception in to_dataframe: return pd.DataFrame()
ToDataframeRaises ==
    /\ pc = "parsed"
    /\ df' = <<>>
    /\ pc' = Caught("map_failed")
    /\ UNCHANGED <<all_text, cleaned, idx, data, normalized, event, names, rosterVars, serviceVars>>

NextCommentary ==
    \/ ParseBlock
    \/ BlockRaises
    \/ ParseRaises
    \/ ReturnNormalized
    \/ ToDataframe
    \/ ToDataframeRaises

SpecCommentary == InitCommentary /\ [][NextCommentary]_vars

-----------------------------------------------------------------------------
(* extract_bowler_batsman on its own *)

sBumrah    == <<"B","u","m","r","a","h">>
sKohli     == <<"K","o","h","l","i">>
sPadKohli  == <<" ","K","o","h","l","i"," ">>
sSito      == <<"S","i","t","o">>
sTo        == <<"t","o">>
sCommaNoRun == <<",",    " ","n","o"," ","r","u","n">>
sComma1to3 == <<","," ","1"," ","t","o"," ","3">>

EventFirsts  == {<<>>, sBumrah, sSito, sSpace \o sBumrah}
EventSeps    == {<<>>, SepTo, sTo, sSpace, Comma}
EventSeconds == {<<>>, sKohli, sPadKohli, sKohli \o SepTo \o sBumrah}
EventTails   == {<<>>, sCommaNoRun, Comma, sComma1to3}

EventTexts ==
    {a \o b \o c \o d :
        a \in EventFirsts, b \in EventSeps, c \in EventSeconds, d \in EventTails}
    \cup {sNoRun, None}

InitEvent ==
    /\ pc = "event"
    /\ event \in EventTexts
    /\ names = <<>>
    /\ idx = 0 /\ data = <<>> /\ normalized = <<>> /\ df = <<>>
    /\ all_text = <<>> /\ cleaned = <<>>
    /\ RosterIdle /\ ServiceIdle

ExtractBowlerBatsman ==
    /\ pc = "event"
    /\ names' = extract_bowler_batsman(event)
    /\ pc' = "extracted"
    /\ UNCHANGED <<all_text, cleaned, idx, data, normalized, df, event, rosterVars, serviceVars>>

NextEvent == ExtractBowlerBatsman

SpecEvent == InitEvent /\ [][NextEvent]_vars

-----------------------------------------------------------------------------
(* MetadataExtractor._clean_player_name *)

\* the characters of the class [â€ *] in the first re.sub, named by code
\* point: U+00E2, U+20AC, U+00A0 (a no-break space) and the asterisk
SymbolChars == {"U+00E2", "U+20AC", "U+00A0", "*"}

RECURSIVE RemoveChars(_, _)
RemoveChars(s, chars) ==
    IF s = <<>> THEN <<>>
    ELSE IF Head(s) \in chars THEN RemoveChars(Tail(s), chars)
         ELSE <<Head(s)>> \o RemoveChars(Tail(s), chars)

CaptainMark == <<"(","c",")">>
KeeperMark  == <<"(","w","k",")">>

\* sub starts s, letter case ignored
StartsWithNoCase(s, sub) ==
    /\ Len(sub) <= Len(s)
    /\ Lower(SubSeq(s, 1, Len(sub))) = Lower(sub)

\* re.sub(r'\(c\)|\(wk\)', '', name, flags=re.IGNORECASE): one pass, left to
\* right, over non-overlapping matches
RECURSIVE RemoveMarks(_)
RemoveMarks(s) ==
    IF s = <<>> THEN <<>>
    ELSE IF StartsWithNoCase(s, CaptainMark)
         THEN RemoveMarks(SubSeq(s, Len(CaptainMark) + 1, Len(s)))
         ELSE IF StartsWithNoCase(s, KeeperMark)
              THEN RemoveMarks(SubSeq(s, Len(KeeperMark) + 1, Len(s)))
              ELSE <<Head(s)>> \o RemoveMarks(Tail(s))

Punctuation == {",", ";"}

RECURSIVE DropTrailing(_, _)
DropTrailing(s, chars) ==
    IF s # <<>> /\ s[Len(s)] \in chars
    THEN DropTrailing(SubSeq(s, 1, Len(s) - 1), chars)
    ELSE s

RECURSIVE DropLeading(_, _)
DropLeading(s, chars) ==
    IF s # <<>> /\ Head(s) \in chars THEN DropLeading(Tail(s), chars) ELSE s

\* re.sub(r'[,;]+$', '', name); $ also matches just before a final newline
StripTrailingPunctuation(s) ==
    IF s # <<>> /\ s[Len(s)] = "\n"
    THEN DropTrailing(SubSeq(s, 1, Len(s) - 1), Punctuation) \o <<"\n">>
    ELSE DropTrailing(s, Punctuation)

\* re.sub(r'^[,;]+', '', name)
StripLeadingPunctuation(s) == DropLeading(s, Punctuation)

\* the length of the longest prefix of TRUE values
LeadingRun(flags) ==
    CHOOSE n \in 0..Len(flags) :
        /\ \A i \in 1..n : flags[i]
        /\ n = Len(flags) \/ ~flags[n + 1]

\* the number of whitespace characters, of other characters, that start s
SpaceRun(s) == LeadingRun([i \in 1..Len(s) |-> IsSpace(s[i])])
WordRun(s)  == LeadingRun([i \in 1..Len(s) |-> ~IsSpace(s[i])])

\* str.split(): the maximal runs of non-whitespace
RECURSIVE Words(_)
Words(s) ==
    LET t == LStrip(s)
        n == WordRun(t)
    IN  IF t = <<>> THEN <<>>
        ELSE <<SubSeq(t, 1, n)>> \o Words(SubSeq(t, n + 1, Len(t)))

\* sep.join(parts)
RECURSIVE JoinWith(_, _)
JoinWith(parts, sep) ==
    IF parts = <<>> THEN <<>>
    ELSE IF Len(parts) = 1 THEN parts[1]
         ELSE parts[1] \o sep \o JoinWith(Tail(parts), sep)

HeaderLabels == {<<"b","a","t","t","e","r">>, <<"b","a","t","s","m","a","n">>,
                 <<"b","a","t","t","e","r","s">>, <<"n","a","m","e">>,
                 <<"b","o","w","l","e","r">>}

_clean_player_name(name) ==
    IF name = None \/ name = <<>> THEN None
    ELSE LET unmarked == RemoveMarks(RemoveChars(name, SymbolChars))
             trimmed  == StripLeadingPunctuation(StripTrailingPunctuation(unmarked))
             cleanedName == Strip(JoinWith(Words(trimmed), <<" ">>))
         IN  IF Lower(cleanedName) \in HeaderLabels THEN None
             ELSE IF cleanedName # <<>> /\ Len(cleanedName) > 1 THEN cleanedName
                  ELSE None

\* the pieces player texts are made of: name parts, the punctuation that
\* follows a name in a list, whitespace, the captain and keeper markers and
\* their fragments, the not-out star, header labels
NameTokens ==
    { <<"S","m">>, <<"S">>, <<",">>, <<";">>, <<" ">>,
      <<"(","c",")">>, <<"(","W","K",")">>, <<"(">>, <<"c",")">>, <<"*">>,
      <<"B","O","W","L","E","R">>, <<"N","a","m","e">> }

MaxTokens == 3

\* flatten a sequence of texts
RECURSIVE Concat(_)
Concat(parts) == IF parts = <<>> THEN <<>> ELSE Head(parts) \o Concat(Tail(parts))

sSmithMarked == <<"S","m","i","t","h"," ","(","c",")","*",",">>

RawNames ==
    {None, sSmithMarked}
        \cup {Concat(parts) : parts \in UNION {[1..n -> NameTokens] : n \in 0..MaxTokens}}

InitName ==
    /\ pc = "name"
    /\ raw_name \in RawNames
    /\ clean_name = <<>> /\ second_name = <<>>
    /\ CommentaryIdle /\ RosterIdle /\ TeamIdle /\ MetaIdle /\ CellIdle /\ PipelineIdle

CleanPlayerName ==
    /\ pc = "name"
    /\ clean_name' = _clean_player_name(raw_name)
    /\ pc' = "named"
    /\ UNCHANGED <<raw_name, second_name, commentaryVars, rosterVars, teamVars, metaVars,
                   cellVars, pipelineVars>>

\* the name returned is passed to _clean_player_name once more
CleanPlayerNameAgain ==
    /\ pc = "named"
    /\ second_name' = _clean_player_name(clean_name)
    /\ pc' = "named_again"
    /\ UNCHANGED <<raw_name, clean_name, commentaryVars, rosterVars, teamVars, metaVars,
                   cellVars, pipelineVars>>

NextName == CleanPlayerName \/ CleanPlayerNameAgain

SpecName == InitName /\ [][NextName]_vars

-----------------------------------------------------------------------------
(* MetadataExtractor._clean_team_name *)

sInningsLower == <<"i","n","n","i","n","g","s">>

IsDigit(c) == \E d \in 1..10 : Digits[d] = c

\* the number of digits that start s
DigitRun(s) == LeadingRun([i \in 1..Len(s) |-> IsDigit(s[i])])

OrdinalSuffixes == {<<"s","t">>, <<"n","d">>, <<"r","d">>, <<"t","h">>}

\* re.sub(r'\s*Innings\s*$', '', team_name, flags=re.IGNORECASE): the text
\* ends with the word and whitespace around it; the match starts with the
\* whitespace before the word
StripTrailingInnings(s) ==
    LET body == RStrip(s)
        n    == Len(body) - Len(sInningsLower)
    IN  IF n >= 0 /\ Lower(SubSeq(body, n + 1, Len(body))) = sInningsLower
        THEN RStrip(SubSeq(body, 1, n))
        ELSE s

\* re.sub(r'^\d+(st|nd|rd|th)?\s+Innings\s*', '', team_name, flags=re.IGNORECASE)
StripLeadingInnings(s) ==
    LET nd     == DigitRun(s)
        afterD == SubSeq(s, nd + 1, Len(s))
        ns     == IF Len(afterD) >= 2 /\ Lower(SubSeq(afterD, 1, 2)) \in OrdinalSuffixes
                  THEN 2 ELSE 0
        afterS == SubSeq(afterD, ns + 1, Len(afterD))
        nw     == SpaceRun(afterS)
        afterW == SubSeq(afterS, nw + 1, Len(afterS))
    IN  IF nd >= 1 /\ nw >= 1 /\ StartsWithNoCase(afterW, sInningsLower)
        THEN LStrip(SubSeq(afterW, Len(sInningsLower) + 1, Len(afterW)))
        ELSE s

\* re.sub(r'\s+', ' ', team_name)
RECURSIVE CollapseSpaces(_)
CollapseSpaces(s) ==
    IF s = <<>> THEN <<>>
    ELSE IF IsSpace(Head(s))
         THEN <<" ">> \o CollapseSpaces(SubSeq(s, SpaceRun(s) + 1, Len(s)))
         ELSE <<Head(s)>> \o CollapseSpaces(Tail(s))

\* the three substitutions and strip()
CleanedTeam(team_name) ==
    Strip(CollapseSpaces(StripLeadingInnings(StripTrailingInnings(team_name))))

_clean_team_name(team_name) ==
    IF team_name = None \/ team_name = <<>> THEN None
    ELSE LET cleanedTeam == CleanedTeam(team_name)
         IN  IF cleanedTeam # <<>> /\ Len(cleanedTeam) > 2 THEN cleanedTeam ELSE None

\* the pieces a header text is made of: team names, ordinals, the word
\* Innings and whitespace
TeamTokens ==
    { <<"I","n","d","i","a">>, <<"N","Z">>, <<" ","2","n","d">>, <<"2","n","d"," ">>, <<"1">>,
      <<" ","I","n","n","i","n","g","s">>, <<"I","n","n","i","n","g","s"," ">>, <<"i","n","n","i","n","g","s">>, <<" ">> }

MaxParts == 3

TeamTexts ==
    {None} \cup {Concat(parts) : parts \in UNION {[1..n -> TeamTokens] : n \in 0..MaxParts}}

InitTeamName ==
    /\ pc = "team_name"
    /\ raw_team \in TeamTexts
    /\ clean_team = <<>>
    /\ resolver_table = <<>> /\ resolver_innings = 0 /\ resolved_team = <<>>
    /\ CommentaryIdle /\ RosterIdle /\ NameIdle /\ MetaIdle /\ CellIdle /\ PipelineIdle

CleanTeamName ==
    /\ pc = "team_name"
    /\ clean_team' = _clean_team_name(raw_team)
    /\ pc' = "team_named"
    /\ UNCHANGED <<raw_team, resolver_table, resolver_innings, resolved_team,
                   commentaryVars, rosterVars, nameVars, metaVars, cellVars, pipelineVars>>

NextTeamName == CleanTeamName

SpecTeamName == InitTeamName /\ [][NextTeamName]_vars

-----------------------------------------------------------------------------
(* MetadataExtractor._extract_team_name_from_table *)

sTeamPrefix == <<"T","e","a","m"," ">>

Min(a, b) == IF a < b THEN a ELSE b

\* the lookups of the cascade are numbered in the order the code makes them:
\* one per parent visited, then the previous name span, then the previous
\* header div; table.raises is the number of the lookup that raises inside
\* the try block (0: none does), so a lookup is completed when it comes
\* before that one
Completed(table, lookup) == table.raises = 0 \/ lookup < table.raises

\* for level in range(10): the parents visited
Levels(table) == 1..Min(AncestorLevels, Len(table.ancestors))

\* Strategy 1 with the farthest parent preferred
AncestorNameFarthest(table) ==
    LET found == {k \in Levels(table) :
                     Completed(table, k) /\ _clean_team_name(table.ancestors[k]) # None}
    IN  IF found = {} THEN None
        ELSE _clean_team_name(table.ancestors[CHOOSE k \in found : \A j \in found : k >= j])

\* Strategy 1: the parents of the table, nearest first, at most AncestorLevels
\* of them; ancestors[k] is the text of the name span found under parent k
\* (None when that parent holds no header div or the div no name span)
AncestorName(table) ==
    LET found == {k \in Levels(table) :
                     Completed(table, k) /\ _clean_team_name(table.ancestors[k]) # None}
    IN  IF found = {} THEN None
        ELSE _clean_team_name(table.ancestors[CHOOSE k \in found : \A j \in found : k <= j])

\* the resolver without its default: None when no strategy yields a name
_extract_team_name_from_table_no_default(table, innings_number) ==
    LET n == Cardinality(Levels(table))
    IN  IF AncestorName(table) # None THEN AncestorName(table)
        ELSE IF Completed(table, n + 1) /\ _clean_team_name(table.prev_span) # None
             THEN _clean_team_name(table.prev_span)
             ELSE IF Completed(table, n + 2) /\ _clean_team_name(table.prev_div_span) # None
                  THEN _clean_team_name(table.prev_div_span)
                  ELSE None

\* an exception raised by a lookup is caught and leads to the default name
_extract_team_name_from_table(table, innings_number) ==
    LET n == Cardinality(Levels(table))
    IN  IF AncestorName(table) # None THEN AncestorName(table)
        ELSE IF Completed(table, n + 1) /\ _clean_team_name(table.prev_span) # None
             THEN _clean_team_name(table.prev_span)
             ELSE IF Completed(table, n + 2) /\ _clean_team_name(table.prev_div_span) # None
                  THEN _clean_team_name(table.prev_div_span)
                  ELSE sTeamPrefix \o IntToStr(innings_number)

\* header texts a scorecard page shows around a batting table
sIndia   == <<"I","n","d","i","a">>
sInnings == <<"I","n","n","i","n","g","s">>
sUAE     == <<"U","A","E">>
sNZ      == <<"N","Z"," ","I","n","n","i","n","g","s">>

\* k parents that hold no header div
NoHeader(k) == [i \in 1..k |-> None]

\* the parent chains: a header under the nearest parent, another header
\* first under a farther parent, a header under the last parent visited, under the first parent that is no longer visited, and
\* rejected headers before an accepted one
AncestorChains ==
    { <<>>, NoHeader(2),
      <<sIndia>>, <<sUAE, sIndia>>, <<sNZ, sUAE>>, <<sInnings, None, sIndia>>,
      NoHeader(AncestorLevels - 1) \o <<sIndia>>,
      NoHeader(AncestorLevels) \o <<sIndia>>,
      <<sNZ>> \o NoHeader(AncestorLevels - 1) \o <<sUAE>> }

SpanTexts == {None, <<>>, sNZ, sUAE}

DivSpanTexts == {None, sInnings, sIndia}

MaxInnings == 2

ResolverTable(anc, ps, pds, r) ==
    [ancestors |-> anc, prev_span |-> ps, prev_div_span |-> pds, raises |-> r]

InitTeam ==
    /\ pc = "team"
    /\ \E anc \in AncestorChains, ps \in SpanTexts, pds \in DivSpanTexts :
          \E r \in 0..(Min(AncestorLevels, Len(anc)) + 2) :
              resolver_table = ResolverTable(anc, ps, pds, r)
    /\ resolver_innings \in 1..MaxInnings
    /\ resolved_team = <<>>
    /\ raw_team = <<>> /\ clean_team = <<>>
    /\ CommentaryIdle /\ RosterIdle /\ NameIdle /\ MetaIdle /\ CellIdle /\ PipelineIdle

ExtractTeamName ==
    /\ pc = "team"
    /\ resolved_team' = _extract_team_name_from_table(resolver_table, resolver_innings)
    /\ pc' = "resolved"
    /\ UNCHANGED <<resolver_table, resolver_innings, raw_team, clean_team,
                   commentaryVars, rosterVars, nameVars, metaVars,
                   cellVars, pipelineVars>>

NextTeam == ExtractTeamName

SpecTeam == InitTeam /\ [][NextTeam]_vars

-----------------------------------------------------------------------------
(* MetadataExtractor._is_impact_player *)

RequiredClasses == {"icon-arrow_back-filled", "ds-text-icon", "ds-text-icon-success-hover"}

\* icons: the class sets of the <i> elements of the cell, in document order;
\* find() returns the first one that carries icon-arrow_back-filled
_is_impact_player(icons) ==
    LET hits == {k \in 1..Len(icons) : "icon-arrow_back-filled" \in icons[k]}
    IN  /\ hits # {}
        /\ RequiredClasses \subseteq icons[CHOOSE k \in hits : \A j \in hits : k <= j]

\* bool(cell.find("i", class_=lambda x: x and "icon-arrow_forward-filled" in x))
IsRetired(icons) == \E k \in 1..Len(icons) : "icon-arrow_forward-filled" \in icons[k]

\* the classes an <i> element of a scorecard cell may carry
IconClasses == RequiredClasses \cup {"icon-arrow_forward-filled", "ds-ml-0.5"}

MaxIcons == 2

\* a cell with its <i> elements, and the cell that is missing
TdElements ==
    {[present |-> b, icons |-> ic] :
        b \in BOOLEAN, ic \in UNION {[1..n -> SUBSET IconClasses] : n \in 0..MaxIcons}}

\* if not td_element: return False
IsImpactCell(td) == td.present /\ _is_impact_player(td.icons)

InitImpact ==
    /\ pc = "impact"
    /\ td_element \in TdElements
    /\ impact_player = FALSE
    /\ CommentaryIdle /\ RosterIdle /\ TeamIdle /\ NameIdle /\ MetaIdle /\ PipelineIdle

IsImpactPlayer ==
    /\ pc = "impact"
    /\ impact_player' = IsImpactCell(td_element)
    /\ pc' = "impact_checked"
    /\ UNCHANGED <<td_element, commentaryVars, rosterVars, teamVars, nameVars, metaVars,
                   pipelineVars>>

NextImpact == IsImpactPlayer

SpecImpact == InitImpact /\ [][NextImpact]_vars

-----------------------------------------------------------------------------
(* MetadataExtractor._extract_batting_players, _extract_bowlers *)

sInningsKey == <<"i","n","n","i","n","g","s","_">>

\* f"innings_{idx}"
InningsKey(i) == sInningsKey \o IntToStr(i)

PyBool(b) == IF b THEN "True" ELSE "False"

PlayerType(is_impact) == IF is_impact THEN "impact" ELSE "regular"

\* one row of pd.DataFrame(all_players): a key a dictionary lacks reads None
\* ("None" for the flags, NoPosition for batting_position)
PlayerEntry(mid, ik, team, name, batted, position, type, retired, not_out, bowled) ==
    [matchid |-> mid, innings |-> ik, team |-> team, player_name |-> name,
     batted |-> batted, batting_position |-> position, player_type |-> type,
     retired |-> retired, not_out |-> not_out, bowled |-> bowled]

\* player_link.get("title", "").strip(), else the text of the nested span
LinkName(link) ==
    IF Strip(link.title) # <<>> THEN Strip(link.title)
    ELSE IF link.inner # None THEN Strip(link.inner) ELSE <<>>

\* the loop with batting_position advanced at every cell
RECURSIVE BattedPlayersEveryCell(_, _, _, _, _)
BattedPlayersEveryCell(cells, position, mid, ik, team) ==
    IF cells = <<>> THEN <<>>
    ELSE LET cell == Head(cells)
             player_name == _clean_player_name(LinkName(cell))
         IN  IF cell.colspan \/ ~cell.link \/ player_name = None
             THEN BattedPlayersEveryCell(Tail(cells), position + 1, mid, ik, team)
             ELSE <<PlayerEntry(mid, ik, team, player_name, TRUE, position,
                                PlayerType(_is_impact_player(cell.icons)),
                                PyBool(IsRetired(cell.icons)), PyBool(cell.notout),
                                "None")>>
                  \o BattedPlayersEveryCell(Tail(cells), position + 1, mid, ik, team)

\* the loop over batsman_cells; position is batting_position
RECURSIVE BattedPlayers(_, _, _, _, _)
BattedPlayers(cells, position, mid, ik, team) ==
    IF cells = <<>> THEN <<>>
    ELSE LET cell == Head(cells)
             player_name == _clean_player_name(LinkName(cell))
         IN  IF cell.colspan \/ ~cell.link \/ player_name = None
             THEN BattedPlayers(Tail(cells), position, mid, ik, team)
             ELSE <<PlayerEntry(mid, ik, team, player_name, TRUE, position,
                                PlayerType(_is_impact_player(cell.icons)),
                                PyBool(IsRetired(cell.icons)), PyBool(cell.notout),
                                "None")>>
                  \o BattedPlayers(Tail(cells), position + 1, mid, ik, team)

sDidNotBat == <<"d","i","d"," ","n","o","t"," ","b","a","t">>

\* the loop over the player links of one "did not bat" cell
RECURSIVE DnbLinks(_, _, _, _, _)
DnbLinks(links, is_impact, mid, ik, team) ==
    IF links = <<>> THEN <<>>
    ELSE LET player_name == _clean_player_name(LinkName(Head(links)))
         IN  IF player_name = None
             THEN DnbLinks(Tail(links), is_impact, mid, ik, team)
             ELSE <<PlayerEntry(mid, ik, team, player_name, FALSE, NoPosition,
                                PlayerType(is_impact), "False", "False", "None")>>
                  \o DnbLinks(Tail(links), is_impact, mid, ik, team)

\* the loop over dnb_cells
RECURSIVE DnbPlayers(_, _, _, _)
DnbPlayers(dnb_cells, mid, ik, team) ==
    IF dnb_cells = <<>> THEN <<>>
    ELSE LET dnb_cell == Head(dnb_cells)
         IN  (IF dnb_cell.header # None
                    /\ Contains(Lower(Strip(dnb_cell.header)), sDidNotBat)
              THEN DnbLinks(dnb_cell.links, _is_impact_player(dnb_cell.icons),
                            mid, ik, team)
              ELSE <<>>)
             \o DnbPlayers(Tail(dnb_cells), mid, ik, team)

_extract_batting_players(table, mid, ik, team) ==
    BattedPlayers(table.cells, 1, mid, ik, team) \o DnbPlayers(table.dnb, mid, ik, team)

BowlerEntry(mid, ik, team, name, is_impact) ==
    PlayerEntry(mid, ik, team, name, FALSE, NoPosition, PlayerType(is_impact),
                "None", "None", "True")

\* Method 1, the loop over bowler_cells
RECURSIVE BowlersFromCells(_, _, _, _, _)
BowlersFromCells(cells, seen_names, mid, ik, team) ==
    IF cells = <<>> THEN <<>>
    ELSE LET cell == Head(cells)
             player_name == _clean_player_name(LinkName(cell))
         IN  IF ~cell.link \/ player_name = None \/ player_name \in seen_names
             THEN BowlersFromCells(Tail(cells), seen_names, mid, ik, team)
             ELSE <<BowlerEntry(mid, ik, team, player_name,
                                _is_impact_player(cell.icons))>>
                  \o BowlersFromCells(Tail(cells), seen_names \cup {player_name},
                                      mid, ik, team)

\* Method 2, the loop over bowler_spans
RECURSIVE BowlersFromSpans(_, _, _, _, _)
BowlersFromSpans(spans, seen_names, mid, ik, team) ==
    IF spans = <<>> THEN <<>>
    ELSE LET span == Head(spans)
             player_name == _clean_player_name(Strip(span.text))
         IN  IF player_name = None \/ player_name \in seen_names
             THEN BowlersFromSpans(Tail(spans), seen_names, mid, ik, team)
             ELSE <<BowlerEntry(mid, ik, team, player_name,
                                span.in_td /\ _is_impact_player(span.icons))>>
                  \o BowlersFromSpans(Tail(spans), seen_names \cup {player_name},
                                      mid, ik, team)

_extract_bowlers(table, mid, ik, team) ==
    IF table.cells = <<>>
    THEN BowlersFromSpans(table.spans, {}, mid, ik, team)
    ELSE BowlersFromCells(table.cells, {}, mid, ik, team)

-----------------------------------------------------------------------------
(* MetadataExtractor._get_opposite_team *)

sUnknownTeam == <<"U","n","k","n","o","w","n"," ","T","e","a","m">>

\* the lookup that returns the first team listed, the current one included
_get_opposite_team_first(current_team, all_teams) ==
    IF current_team = None \/ current_team = <<>> \/ Len(all_teams) < 2
    THEN sUnknownTeam
    ELSE all_teams[1]

\* current_team is None when there is no batting team at the index
_get_opposite_team(current_team, all_teams) ==
    IF current_team = None \/ current_team = <<>> \/ Len(all_teams) < 2
    THEN sUnknownTeam
    ELSE LET others == {k \in 1..Len(all_teams) : all_teams[k] # current_team}
         IN  IF others = {} THEN sUnknownTeam
             ELSE all_teams[CHOOSE k \in others : \A j \in others : k <= j]

-----------------------------------------------------------------------------
(* MetadataExtractor.extract_player_names *)

\* type_priority
Priority(entry) == IF entry.player_type = "impact" THEN 1 ELSE 2

\* the sequences that list the elements of the index set S once each
Orderings(S) ==
    LET n    == Cardinality(S)
        base == CHOOSE f \in [1..n -> S] : \A i, j \in 1..n : i < j => f[i] < f[j]
    IN  {[i \in 1..n |-> p[base[i]]] : p \in Permutations(S)}

\* the frame left unsorted, in extraction order
SortValuesNone(players) == {players}

\* df.sort_values('priority'): rows in priority order; the default sort is
\* not stable, so rows of equal priority come in any order
SortValues(players) ==
    LET first  == {i \in 1..Len(players) : Priority(players[i]) = 1}
        second == {i \in 1..Len(players) : Priority(players[i]) = 2}
    IN  {[k \in 1..Len(players) |-> players[(a \o b)[k]]] :
            a \in Orderings(first), b \in Orderings(second)}

SameKey(e1, e2) == e1.matchid = e2.matchid /\ e1.player_name = e2.player_name

\* df.drop_duplicates(subset=['matchid', 'player_name'], keep='first')
RECURSIVE DropDuplicates(_)
DropDuplicates(rows) ==
    IF rows = <<>> THEN <<>>
    ELSE LET front == DropDuplicates(SubSeq(rows, 1, Len(rows) - 1))
             last  == rows[Len(rows)]
         IN  IF \E k \in 1..(Len(rows) - 1) : SameKey(rows[k], last)
             THEN front
             ELSE Append(front, last)

sSmith      == <<"S","m","i","t","h">>
sJones      == <<"J","o","n","e","s">>
sSmithCapt  == <<"S","m","i","t","h"," ","(","c",")">>
sSmithStar  == <<"S","m","i","t","h","*",",">>
sBOWLER     == <<"B","O","W","L","E","R">>
sIndiaInnings == <<"I","n","d","i","a"," ","I","n","n","i","n","g","s">>
sSecondInningsAustralia ==
    <<"2","n","d"," ","I","n","n","i","n","g","s"," ","A","u","s","t","r","a","l","i","a">>
sOz         == <<"O","z">>
sDidNotBatHeader == <<"D","i","d"," ","n","o","t"," ","b","a","t",":">>

ImpactIcon  == RequiredClasses \cup {"ds-ml-0.5", "ds-cursor-pointer"}
PartialIcon == {"icon-arrow_back-filled", "ds-text-icon"}
RetiredIcon == {"icon-arrow_forward-filled", "ds-text-icon"}

Link(t, in) == [title |-> t, inner |-> in]

BatCell(cs, lk, t, in, no, ic) ==
    [colspan |-> cs, link |-> lk, title |-> t, inner |-> in, notout |-> no, icons |-> ic]

DnbCell(h, lks, ic) == [header |-> h, links |-> lks, icons |-> ic]

BattingTable(anc, ps, pds, cs, dnb) ==
    [ancestors |-> anc, prev_span |-> ps, prev_div_span |-> pds, cells |-> cs, dnb |-> dnb,
     raises |-> 0]

BowlCell(lk, t, in, ic) == [link |-> lk, title |-> t, inner |-> in, icons |-> ic]

BowlSpan(tx, td, ic) == [text |-> tx, in_td |-> td, icons |-> ic]

BowlingTable(cs, sp) == [cells |-> cs, spans |-> sp]

\* scorecard tables as BeautifulSoup presents them
BattingTableSamples ==
    { BattingTable(<<None, sIndiaInnings>>, None, None,
                   <<BatCell(FALSE, TRUE, sSmithCapt, None, TRUE, <<>>),
                     BatCell(FALSE, TRUE, sJones, None, FALSE, <<RetiredIcon, ImpactIcon>>)>>,
                   <<>>),
      BattingTable(<<sOz>>, sSecondInningsAustralia, None,
                   <<BatCell(TRUE, TRUE, sJones, None, FALSE, <<>>),
                     BatCell(FALSE, FALSE, <<>>, None, FALSE, <<>>),
                     BatCell(FALSE, TRUE, sBOWLER, None, FALSE, <<>>),
                     BatCell(FALSE, TRUE, <<>>, sSmith, FALSE, <<PartialIcon>>)>>,
                   <<DnbCell(sDidNotBatHeader, <<Link(sJones, None)>>, <<ImpactIcon>>)>>),
      BattingTable(<<>>, None, None, <<>>, <<DnbCell(None, <<Link(sSmith, None)>>, <<>>)>>) }

BowlingTableSamples ==
    { BowlingTable(<<BowlCell(TRUE, sSmith, None, <<ImpactIcon>>),
                     BowlCell(TRUE, sSmithStar, None, <<>>)>>, <<>>),
      BowlingTable(<<>>, <<BowlSpan(sBOWLER, FALSE, <<>>),
                           BowlSpan(sJones, TRUE, <<PartialIcon>>)>>) }

MatchIds == {1, 2}

TableLists(samples) == UNION {[1..n -> samples] : n \in 0..MaxTables}

InitRoster ==
    /\ pc = "start"
    /\ match_id \in MatchIds
    /\ batting_tables \in TableLists(BattingTableSamples)
    /\ bowling_tables \in TableLists(BowlingTableSamples)
    /\ batting_teams = <<>> /\ table_idx = 0
    /\ all_players = <<>> /\ df_unique = <<>>
    /\ CommentaryIdle /\ ServiceIdle

\* no batting scorecard table: the empty frame is returned
NoBattingTables ==
    /\ pc = "start"
    /\ batting_tables = <<>>
    /\ df_unique' = <<>>
    /\ pc' = "done"
    /\ UNCHANGED <<match_id, batting_tables, bowling_tables, batting_teams,
                   table_idx, all_players, commentaryVars, serviceVars>>

\* STEP 1: the batting team of every innings
ExtractBattingTeams ==
    /\ pc = "start"
    /\ batting_tables # <<>>
    /\ batting_teams' = [i \in 1..Len(batting_tables) |->
                            _extract_team_name_from_table(batting_tables[i], i)]
    /\ table_idx' = 1
    /\ pc' = "batting"
    /\ UNCHANGED <<match_id, batting_tables, bowling_tables, all_players,
                   df_unique, commentaryVars, serviceVars>>

\* STEP 2: one iteration of the loop over the batting tables
ProcessBattingTable ==
    /\ pc = "batting"
    /\ all_players' = all_players \o
          _extract_batting_players(batting_tables[table_idx], match_id,
                                   InningsKey(table_idx), batting_teams[table_idx])
    /\ IF table_idx < Len(batting_tables)
       THEN table_idx' = table_idx + 1 /\ pc' = "batting"
       ELSE table_idx' = 1 /\
            pc' = IF bowling_tables = <<>> THEN "dedupe" ELSE "bowling"
    /\ UNCHANGED <<match_id, batting_tables, bowling_tables, batting_teams,
                   df_unique, commentaryVars, serviceVars>>

\* STEP 3: one iteration of the loop over the bowling tables
ProcessBowlingTable ==
    /\ pc = "bowling"
    /\ LET batting_team == IF table_idx <= Len(batting_teams)
                           THEN batting_teams[table_idx] ELSE None
           bowling_team == _get_opposite_team(batting_team, batting_teams)
       IN  all_players' = all_players \o
              _extract_bowlers(bowling_tables[table_idx], match_id,
                               InningsKey(table_idx), bowling_team)
    /\ IF table_idx < Len(bowling_tables)
       THEN table_idx' = table_idx + 1 /\ pc' = "bowling"
       ELSE table_idx' = 1 /\ pc' = "dedupe"
    /\ UNCHANGED <<match_id, batting_tables, bowling_tables, batting_teams,
                   df_unique, commentaryVars, serviceVars>>

\* the frame of all entries, sorted by priority, duplicates dropped; without
\* entries df['player_type'] raises KeyError and the empty frame is returned
CreateRoster ==
    /\ pc = "dedupe"
    /\ IF all_players = <<>>
       THEN df_unique' = <<>>
       ELSE \E sorted \in SortValues(all_players) :
               df_unique' = DropDuplicates(sorted)
    /\ pc' = "done"
    /\ UNCHANGED <<match_id, batting_tables, bowling_tables, batting_teams,
                   table_idx, all_players, commentaryVars, serviceVars>>

\* an exception anywhere in the try block: the empty frame is returned
RosterRaises ==
    /\ pc \in {"start", "batting", "bowling", "dedupe"}
    /\ df_unique' = <<>>
    /\ pc' = Caught("roster_failed")
    /\ UNCHANGED <<match_id, batting_tables, bowling_tables, batting_teams,
                   table_idx, all_players, commentaryVars, serviceVars>>

NextRoster ==
    \/ RosterRaises
    \/ NoBattingTables
    \/ ExtractBattingTeams
    \/ ProcessBattingTable
    \/ ProcessBowlingTable
    \/ CreateRoster

SpecRoster == InitRoster /\ [][NextRoster]_vars

-----------------------------------------------------------------------------
(* MetadataExtractor.extract_metadata *)

\* a dict is a function from its keys to their values
EmptyDict == <<>>

\* d.setdefault(key, value): a key already present keeps its value
SetDefault(d, key, value) ==
    [k \in DOMAIN d \cup {key} |-> IF k \in DOMAIN d THEN d[k] ELSE value]

\* d[key] = value
SetItem(d, key, value) ==
    [k \in DOMAIN d \cup {key} |-> IF k = key THEN value ELSE d[k]]

sMatchID == <<"M","a","t","c","h","I","D">>
sVenue   == <<"V","e","n","u","e">>
sToss    == <<"T","o","s","s">>
sSeries  == <<"S","e","r","i","e","s">>
sIPL     == <<"I","P","L">>
sLords   == <<"L","o","r","d","s">>
sEden    == <<"E","d","e","n">>
s2024    == <<"2","0","2","4">>
s999     == <<"9","9","9">>

\* rows of the details panel: the texts of the spans of a row, each as
\* get_text(strip=True) gives it
DetailsRowSamples ==
    { <<sToss, sIndia>>,            \* label and value
      <<sSeries, sIPL, s2024>>,     \* a value spread over two spans
      <<sEden>>,                    \* a lone span: the venue
      <<sVenue, sLords>>,           \* a row labelled Venue
      <<sMatchID, s999>>,           \* a row labelled MatchID
      <<<<>>, sIndia>>,             \* no label text
      <<sToss, <<>>, <<>>>>,        \* no value text
      <<<<>>>>,                     \* a lone empty span
      <<>> }                        \* no span

MaxRows == 2

\* match_id as extract_match_id gives it: the digits of the URL
DetailsIds == {IntToStr(m) : m \in MatchIds}

InitMetadata ==
    /\ pc = "details"
    /\ details_rows \in UNION {[1..n -> DetailsRowSamples] : n \in 0..MaxRows}
    /\ details_id \in DetailsIds
    /\ row_idx = 1
    /\ metadata = EmptyDict
    /\ CommentaryIdle /\ RosterIdle /\ TeamIdle /\ NameIdle /\ CellIdle /\ PipelineIdle

\* the entries a row adds to the mapping
ParseDetailsRow(d, spans) ==
    IF Len(spans) >= 2
    THEN LET key   == spans[1]
             value == Strip(JoinWith(Tail(spans), <<" ">>))
         IN  IF key # <<>> /\ value # <<>> THEN SetItem(d, key, value) ELSE d
    ELSE IF Len(spans) = 1
         THEN IF spans[1] # <<>> /\ sVenue \notin DOMAIN d
              THEN SetItem(d, sVenue, spans[1])
              ELSE d
         ELSE d

\* no details row on the page: the mapping holds the match id alone
NoDetailsRows ==
    /\ pc = "details"
    /\ details_rows = <<>>
    /\ metadata' = SetItem(metadata, sMatchID, details_id)
    /\ pc' = "described"
    /\ UNCHANGED <<details_rows, details_id, row_idx, commentaryVars, rosterVars,
                   teamVars, nameVars, cellVars, pipelineVars>>

\* one iteration of the loop over the rows
ParseRow ==
    /\ pc = "details"
    /\ row_idx <= Len(details_rows)
    /\ metadata' = ParseDetailsRow(metadata, details_rows[row_idx])
    /\ row_idx' = row_idx + 1
    /\ UNCHANGED <<pc, details_rows, details_id, commentaryVars, rosterVars,
                   teamVars, nameVars, cellVars, pipelineVars>>

\* after the loop the match id is added and the mapping returned
ReturnMetadata ==
    /\ pc = "details"
    /\ details_rows # <<>>
    /\ row_idx > Len(details_rows)
    /\ metadata' = SetItem(metadata, sMatchID, details_id)
    /\ pc' = "described"
    /\ UNCHANGED <<details_rows, details_id, row_idx, commentaryVars, rosterVars,
                   teamVars, nameVars, cellVars, pipelineVars>>

\* except Exception: return {"MatchID": match_id}
extract_metadata_except(id) == SetItem(EmptyDict, sMatchID, id)

\* an exception raised anywhere in the try block, before the page is parsed
\* or while a row is read
MetadataRaises ==
    /\ pc = "details"
    /\ metadata' = extract_metadata_except(details_id)
    /\ pc' = Caught("details_failed")
    /\ UNCHANGED <<details_rows, details_id, row_idx, commentaryVars, rosterVars,
                   teamVars, nameVars, cellVars, pipelineVars>>

NextMetadata ==
    \/ NoDetailsRows
    \/ ParseRow
    \/ ReturnMetadata
    \/ MetadataRaises

SpecMetadata == InitMetadata /\ [][NextMetadata]_vars

-----------------------------------------------------------------------------
(* The parsing core as MatchScraper.scrape calls it: extract_metadata,       *)
(* extract_player_names, parse_commentary and to_dataframe                   *)

InitCore == InitMetadata \/ InitRoster \/ InitCommentary

NextCore == NextMetadata \/ NextRoster \/ NextCommentary

SpecCore == InitCore /\ [][NextCore]_vars

-----------------------------------------------------------------------------
(* main.py: extract_match_id and is_connection_error *)

sFullScorecard == <<"f","u","l","l","-","s","c","o","r","e","c","a","r","d">>
sScorecardEnd  == <<"/","f","u","l","l","-","s","c","o","r","e","c","a","r","d">>

\* prefix starts s
StartsWith(s, prefix) ==
    Len(prefix) <= Len(s) /\ SubSeq(s, 1, Len(prefix)) = prefix

\* re.search(r'-(\d+)/full-scorecard', url): the digits of the leftmost
\* match; \d+ takes the whole run of digits, which "/" must follow
extract_match_id(url) ==
    LET digits(p) == DigitRun(SubSeq(url, p + 1, Len(url)))
        hits == {p \in 1..Len(url) :
                    /\ url[p] = "-"
                    /\ digits(p) >= 1
                    /\ StartsWith(SubSeq(url, p + 1 + digits(p), Len(url)), sScorecardEnd)}
    IN  IF hits = {} THEN None
        ELSE LET p == CHOOSE q \in hits : \A r \in hits : q <= r
             IN  SubSeq(url, p + 1, p + digits(p))

\* an exception: its class and str(exception)
Exc(type, message) == [type |-> type, message |-> message]

\* the classes an exception class derives from, itself included
Superclasses(type) ==
    {type, "Exception"} \cup
    (IF type \in {"TimeoutException", "NoSuchElementException"}
     THEN {"WebDriverException"} ELSE {})

\* isinstance(exception, classes)
IsInstance(exception, classes) == Superclasses(exception.type) \cap classes # {}

\* retryable_errors
RetryableErrors ==
    {"ConnectionError", "HTTPError", "Timeout", "MaxRetryError", "NewConnectionError",
     "TimeoutException", "WebDriverException"}

\* connection_keywords
ConnectionKeywords ==
    { <<"c","o","n","n","e","c","t","i","o","n">>,
      <<"t","i","m","e","o","u","t">>,
      <<"t","i","m","e","d"," ","o","u","t">>,
      <<"n","e","t","w","o","r","k">>,
      <<"h","t","t","p">>,
      <<"r","e","f","u","s","e","d">>,
      <<"u","n","r","e","a","c","h","a","b","l","e">>,
      <<"f","a","i","l","e","d"," ","t","o"," ","e","s","t","a","b","l","i","s","h">>,
      <<"c","a","n","n","o","t"," ","c","o","n","n","e","c","t">>,
      <<"c","o","n","n","e","c","t","i","o","n"," ","r","e","s","e","t">>,
      <<"c","o","n","n","e","c","t","i","o","n"," ","a","b","o","r","t","e","d">>,
      <<"r","e","m","o","t","e","d","i","s","c","o","n","n","e","c","t","e","d">>,
      <<"b","r","o","k","e","n"," ","p","i","p","e">>,
      <<"c","o","n","n","e","c","t","i","o","n"," ","p","o","o","l">> }

is_connection_error(exception) ==
    \/ IsInstance(exception, RetryableErrors)
    \/ \E keyword \in ConnectionKeywords : Contains(Lower(exception.message), keyword)

-----------------------------------------------------------------------------
(* utils/match_tracker.py: MatchTracker *)

\* INSERT ... ON CONFLICT (match_id) DO UPDATE SET status = EXCLUDED.status
TrackerAdd(db, id, status) == SetItem(db, id, status)

\* SELECT EXISTS(SELECT 1 FROM tracker WHERE match_id = %s)
TrackerExists(db, id) == id \in DOMAIN db

\* INSERT ... VALUES (%s, 'failed', ...) ON CONFLICT DO UPDATE SET status = 'failed'
TrackerMarkFailed(db, id) == SetItem(db, id, "failed")

\* DELETE FROM tracker WHERE match_id = %s
TrackerDelete(db, id) == [k \in DOMAIN db \ {id} |-> db[k]]

\* get_all_matches: SELECT match_id FROM tracker
get_all_matches(db) == DOMAIN db

\* if self._cache is not None: self._cache.add(str(match_id))
CacheAdd(cache, id) ==
    IF cache.loaded THEN [cache EXCEPT !.ids = @ \cup {id}] ELSE cache

\* if self._cache is not None: self._cache.discard(str(match_id))
CacheDiscard(cache, id) ==
    IF cache.loaded THEN [cache EXCEPT !.ids = @ \ {id}] ELSE cache

\* exists: the cache answers when it is loaded, the table otherwise
exists(cache, db, id) ==
    IF cache.loaded THEN id \in cache.ids ELSE TrackerExists(db, id)

MaxCalls == 3

\* the tables a tracker is created on: empty, one completed match, one
\* failed match
TrackerTables ==
    {EmptyDict} \cup {SetItem(EmptyDict, id, st) : id \in DetailsIds, st \in {"completed", "failed"}}

InitTracker ==
    /\ pc = "tracker"
    /\ tracker_db \in TrackerTables
    /\ tracker_cache = NoCache
    /\ tracker_calls = 0
    /\ exists_id = <<>> /\ exists_answer = FALSE
    /\ schedule_page = <<>> /\ run_no = 0
    /\ load_attempt = 0 /\ schedule_retry_count = 0 /\ schedule_fetches = 0
    /\ schedule_loaded = FALSE /\ scorecard_links = <<>> /\ link_idx = 0
    /\ results = <<>>
    /\ RetryIdle /\ ParserIdle

\* one more call is made on the tracker
TrackerCall ==
    /\ pc = "tracker"
    /\ tracker_calls < MaxCalls
    /\ tracker_calls' = tracker_calls + 1
    /\ UNCHANGED <<pc, schedule_page, run_no, load_attempt, schedule_retry_count,
                   schedule_fetches, schedule_loaded, scorecard_links, link_idx, results,
                   retryVars, parserVars>>

\* load_cache()
LoadCache ==
    /\ TrackerCall
    /\ tracker_cache' = [loaded |-> TRUE, ids |-> get_all_matches(tracker_db)]
    /\ UNCHANGED <<tracker_db, exists_id, exists_answer>>

\* load_cache() when the query of get_all_matches fails: it returns set()
LoadCacheFails ==
    /\ TrackerCall
    /\ tracker_cache' = [loaded |-> TRUE, ids |-> {}]
    /\ UNCHANGED <<tracker_db, exists_id, exists_answer>>

\* clear_cache()
ClearCache ==
    /\ TrackerCall
    /\ tracker_cache' = NoCache
    /\ UNCHANGED <<tracker_db, exists_id, exists_answer>>

\* add(match_id, status=status): the row is written and the cache updated
Add ==
    /\ TrackerCall
    /\ \E id \in DetailsIds, status \in {"completed", "failed"} :
          /\ tracker_db' = TrackerAdd(tracker_db, id, status)
          /\ tracker_cache' = CacheAdd(tracker_cache, id)
    /\ UNCHANGED <<exists_id, exists_answer>>

\* mark_failed(match_id, error_message): the row is written; the cache is
\* not touched
MarkFailed ==
    /\ TrackerCall
    /\ \E id \in DetailsIds : tracker_db' = TrackerMarkFailed(tracker_db, id)
    /\ UNCHANGED <<tracker_cache, exists_id, exists_answer>>

\* delete_match(match_id): the row is deleted and the cache updated
DeleteMatch ==
    /\ TrackerCall
    /\ \E id \in DetailsIds :
          /\ tracker_db' = TrackerDelete(tracker_db, id)
          /\ tracker_cache' = CacheDiscard(tracker_cache, id)
    /\ UNCHANGED <<exists_id, exists_answer>>

\* add, mark_failed or delete_match whose statement fails: rollback, False
\* is returned, table and cache stay as they were
WriteFails ==
    /\ TrackerCall
    /\ UNCHANGED <<tracker_db, tracker_cache, exists_id, exists_answer>>

\* exists(match_id)
Exists ==
    /\ TrackerCall
    /\ \E id \in DetailsIds :
          /\ exists_id' = id
          /\ exists_answer' = exists(tracker_cache, tracker_db, id)
    /\ UNCHANGED <<tracker_db, tracker_cache>>

NextTracker ==
    \/ LoadCache
    \/ LoadCacheFails
    \/ ClearCache
    \/ Add
    \/ MarkFailed
    \/ DeleteMatch
    \/ WriteFails
    \/ Exists

SpecTracker == InitTracker /\ [][NextTracker]_vars

-----------------------------------------------------------------------------
(* scraping/match_scraper.py and core/driver_manager.py *)

sTimeoutPrefix   == <<"T","i","m","e","o","u","t"," ","e","r","r","o","r"," ","a","f","t","e","r"," ","3"," ","r","e","t","r","i","e","s",":"," ">>
sWebDriverPrefix == <<"W","e","b","D","r","i","v","e","r"," ","e","r","r","o","r",":"," ">>

\* the except clauses of MatchScraper.scrape: a TimeoutException and a
\* WebDriverException leave as a plain Exception with a prefixed message,
\* any other exception leaves unchanged
ScrapeError(e) ==
    IF IsInstance(e, {"TimeoutException"})
    THEN Exc("Exception", sTimeoutPrefix \o e.message)
    ELSE IF IsInstance(e, {"WebDriverException"})
         THEN Exc("Exception", sWebDriverPrefix \o e.message)
         ELSE e

\* the exceptions raised while a match is scraped: a page load that times
\* out, a refused connection, an element missing from the page, a date that
\* does not parse, an upload that loses its connection
ScrapeFaults ==
    { Exc("TimeoutException", <<"t","i","m","e","d"," ","o","u","t">>),
      Exc("WebDriverException", <<"E","R","R","_","C","O","N","N","E","C","T","I","O","N","_","R","E","F","U","S","E","D">>),
      Exc("NoSuchElementException", <<"T","e","a","m"," ","n","a","m","e"," ","i","s"," ","e","m","p","t","y">>),
      Exc("ValueError", <<"b","a","d"," ","d","a","t","e">>),
      Exc("ConnectionError", <<"u","p","l","o","a","d"," ","a","b","o","r","t","e","d">>) }

\* Chrome does not start: no driver exists
StartFault == Exc("WebDriverException", <<"C","h","r","o","m","e"," ","f","a","i","l","e","d"," ","t","o"," ","s","t","a","r","t">>)

\* get_connection() fails in MatchTracker.add, outside its try block
DatabaseFault == Exc("OperationalError", <<"c","o","n","n","e","c","t","i","o","n"," ","t","o"," ","s","e","r","v","e","r"," ","f","a","i","l","e","d">>)

NoError == Exc("None", <<>>)

\* stop_driver that leaves the browser running
stop_driver_keep(drivers, n) == drivers

\* DriverManager.stop_driver: driver.quit() when the manager holds a driver
stop_driver(drivers, n) == drivers \ {n}

-----------------------------------------------------------------------------
(* main.py: scrape_match_with_retry *)

MAX_RETRIES == 3

sFailedAfter == <<"F","a","i","l","e","d"," ","a","f","t","e","r"," ">>
sAttempts    == <<" ","a","t","t","e","m","p","t","s",":"," ">>

\* the retry test that allows one retry more
MayRetryOnceMore(e, count, limit) == is_connection_error(e) /\ count <= limit

\* if is_connection_error(e) and retry_count < max_retries
MayRetry(e, count, limit) == is_connection_error(e) /\ count < limit

\* the message returned with False
FailureMessage(e, count, limit) ==
    IF count >= limit
    THEN sFailedAfter \o IntToStr(limit + 1) \o sAttempts \o e.message
    ELSE e.message

runLocalVars == <<schedule_page, run_no, load_attempt, schedule_retry_count,
                  schedule_fetches, schedule_loaded, scorecard_links, link_idx, results>>

InitRetry ==
    /\ pc = "attempt"
    /\ retry_match \in DetailsIds
    /\ max_retries \in 0..MAX_RETRIES
    /\ retry_count = 0 /\ attempts = 0
    /\ open_drivers = {}
    /\ error = NoError
    /\ outcome = <<>>
    /\ RunIdle /\ CacheIdle /\ ParserIdle

\* the top of the while loop: a MatchScraper is created and scrape() starts
\* its driver
StartAttempt ==
    /\ pc = "attempt"
    /\ retry_count <= max_retries
    /\ attempts' = attempts + 1
    /\ open_drivers' = open_drivers \cup {attempts'}
    /\ pc' = "scraping"
    /\ UNCHANGED <<retry_match, max_retries, retry_count, error, outcome,
                   tracker_db, runLocalVars, cacheVars, parserVars>>

\* the driver does not start
StartFails ==
    /\ pc = "attempt"
    /\ retry_count <= max_retries
    /\ attempts' = attempts + 1
    /\ error' = ScrapeError(StartFault)
    /\ pc' = "closing"
    /\ UNCHANGED <<retry_match, max_retries, retry_count, open_drivers, outcome,
                   tracker_db, runLocalVars, cacheVars, parserVars>>

\* the pages are scraped and the data saved
ScrapeSucceeds ==
    /\ pc = "scraping"
    /\ error' = NoError
    /\ pc' = "closing"
    /\ UNCHANGED <<retry_match, max_retries, retry_count, attempts, open_drivers,
                   outcome, tracker_db, runLocalVars, cacheVars, parserVars>>

\* an exception while the pages are scraped or the data saved
ScrapeFails ==
    /\ pc = "scraping"
    /\ \E e \in ScrapeFaults : error' = ScrapeError(e)
    /\ pc' = "closing"
    /\ UNCHANGED <<retry_match, max_retries, retry_count, attempts, open_drivers,
                   outcome, tracker_db, runLocalVars, cacheVars, parserVars>>

\* the finally clause of scrape(): the driver of this attempt is stopped
StopDriver ==
    /\ pc = "closing"
    /\ open_drivers' = stop_driver(open_drivers, attempts)
    /\ pc' = IF error = NoError THEN "track" ELSE "handle"
    /\ UNCHANGED <<retry_match, max_retries, retry_count, attempts, error, outcome,
                   tracker_db, runLocalVars, cacheVars, parserVars>>

\* tracker.add(status='completed') succeeds; return True, None
TrackCompleted ==
    /\ pc = "track"
    /\ tracker_db' = TrackerAdd(tracker_db, retry_match, "completed")
    /\ outcome' = <<"True", None>>
    /\ pc' = "retry_returned"
    /\ UNCHANGED <<retry_match, max_retries, retry_count, attempts, open_drivers,
                   error, runLocalVars, cacheVars, parserVars>>

\* the INSERT fails: add() rolls back and returns False, which the caller
\* does not look at; return True, None
TrackFails ==
    /\ pc = "track"
    /\ outcome' = <<"True", None>>
    /\ pc' = "retry_returned"
    /\ UNCHANGED <<retry_match, max_retries, retry_count, attempts, open_drivers,
                   error, tracker_db, runLocalVars, cacheVars, parserVars>>

\* the database cannot be reached: add() raises
TrackRaises ==
    /\ pc = "track"
    /\ error' = DatabaseFault
    /\ pc' = "handle"
    /\ UNCHANGED <<retry_match, max_retries, retry_count, attempts, open_drivers,
                   outcome, tracker_db, runLocalVars, cacheVars, parserVars>>

\* the except clause: a connection error below the limit is retried
RetryAfterError ==
    /\ pc = "handle"
    /\ MayRetry(error, retry_count, max_retries)
    /\ retry_count' = retry_count + 1
    /\ pc' = "attempt"
    /\ UNCHANGED <<retry_match, max_retries, attempts, open_drivers, error, outcome,
                   tracker_db, runLocalVars, cacheVars, parserVars>>

\* the except clause: any other error ends the call; return False, error_msg
GiveUp ==
    /\ pc = "handle"
    /\ ~MayRetry(error, retry_count, max_retries)
    /\ outcome' = <<"False", FailureMessage(error, retry_count, max_retries)>>
    /\ pc' = "retry_returned"
    /\ UNCHANGED <<retry_match, max_retries, retry_count, attempts, open_drivers,
                   error, tracker_db, runLocalVars, cacheVars, parserVars>>

NextRetry ==
    \/ StartAttempt
    \/ StartFails
    \/ ScrapeSucceeds
    \/ ScrapeFails
    \/ StopDriver
    \/ TrackCompleted
    \/ TrackFails
    \/ TrackRaises
    \/ RetryAfterError
    \/ GiveUp

SpecRetry == InitRetry /\ [][NextRetry]_vars

\* the call is sequential code: a step that can be taken is taken
SpecRetryFair == SpecRetry /\ WF_vars(NextRetry)

-----------------------------------------------------------------------------
(* scraping/schedule_scraper.py: ScheduleScraper.fetch_hrefs *)

sSite          == <<"h","t","t","p","s",":","/","/","w","w","w",".","e","s","p","n","c","r","i","c","i","n","f","o",".","c","o","m">>
sYetToBegin    == <<"M","a","t","c","h"," ","y","e","t"," ","t","o"," ","b","e","g","i","n">>

\* the hrefs of the anchors of a schedule page: two scorecards given by path,
\* a live page given in full, a scorecard without an id, a fixture not begun
hScorecard1 == <<"/","m","-","1","/","f","u","l","l","-","s","c","o","r","e","c","a","r","d">>
hScorecard2 == <<"/","m","-","2","/","f","u","l","l","-","s","c","o","r","e","c","a","r","d">>
hLive       == <<"h","t","t","p","s",":","/","/","w","w","w",".","e","s","p","n","c","r","i","c","i","n","f","o",".","c","o","m","/","m","-","1","/","l","i","v","e">>
hNoId       == <<"/","m","/","f","u","l","l","-","s","c","o","r","e","c","a","r","d">>
hFixture    == <<"/","M","a","t","c","h"," ","y","e","t"," ","t","o"," ","b","e","g","i","n">>

LinkSamples == {hScorecard1, hScorecard2, hLive, hNoId, hFixture}

MaxLinks == 2

SchedulePages == UNION {[1..n -> LinkSamples] : n \in 0..MaxLinks}

\* full_link: a path gets the site in front
FullLink(href) == IF StartsWith(href, <<"/">>) THEN sSite \o href ELSE href

\* the loop over the anchors: empty hrefs and fixtures not begun are left
\* out, and a link already collected is not collected again
RECURSIVE Hrefs(_, _)
Hrefs(links, hrefs) ==
    IF links = <<>> THEN hrefs
    ELSE LET href == Head(links)
             full_link == FullLink(href)
         IN  IF href # <<>> /\ ~Contains(href, sYetToBegin)
                /\ \A i \in 1..Len(hrefs) : hrefs[i] # full_link
             THEN Hrefs(Tail(links), Append(hrefs, full_link))
             ELSE Hrefs(Tail(links), hrefs)

\* what fetch_hrefs returns: the links of a page that loaded, and the empty
\* list after any exception, which fetch_hrefs catches itself
fetch_hrefs(page, loaded) == IF loaded THEN Hrefs(page, <<>>) ELSE <<>>

\* ScheduleScraper(max_retries=3): the page loads _load_page_with_retry tries
ScheduleLoadAttempts == 3

-----------------------------------------------------------------------------
(* main.py: scrape_cricket_data *)

schedule_max_retries == 3

MaxRuns == 2

NewResults ==
    [total_found |-> 0, downloaded |-> 0, skipped |-> 0, failed |-> 0,
     status |-> "success"]

\* the full-scorecard links among match_links
ScorecardLinks(match_links) ==
    SelectSeq(match_links, LAMBDA url : Contains(url, sFullScorecard))

\* the first run starts with an empty tracker table
InitRun ==
    /\ pc = "run"
    /\ run_no = 1
    /\ tracker_db = EmptyDict
    /\ schedule_page \in SchedulePages
    /\ load_attempt = 0 /\ schedule_retry_count = 0 /\ schedule_fetches = 0
    /\ schedule_loaded = FALSE /\ scorecard_links = <<>> /\ link_idx = 0
    /\ results = <<>>
    /\ RetryIdle /\ CacheIdle /\ ParserIdle

\* results is set up and MatchTracker() connects
StartRun ==
    /\ pc = "run"
    /\ results' = NewResults
    /\ schedule_retry_count' = 0
    /\ pc' = "schedule"
    /\ UNCHANGED <<tracker_db, schedule_page, run_no, load_attempt, schedule_fetches,
                   schedule_loaded, scorecard_links, link_idx, retryVars, cacheVars, parserVars>>

\* MatchTracker() raises: status 'failed' is returned
TrackerInitFails ==
    /\ pc = "run"
    /\ results' = [NewResults EXCEPT !.status = "failed"]
    /\ pc' = "returned"
    /\ UNCHANGED <<tracker_db, schedule_page, run_no, load_attempt, schedule_retry_count,
                   schedule_fetches, schedule_loaded, scorecard_links, link_idx,
                   retryVars, cacheVars, parserVars>>

\* the top of the schedule loop: a ScheduleScraper is created and fetch_hrefs
\* starts its driver
StartScheduleFetch ==
    /\ pc = "schedule"
    /\ schedule_retry_count <= schedule_max_retries
    /\ schedule_fetches' = schedule_fetches + 1
    /\ load_attempt' = 1
    /\ pc' = "loading"
    /\ UNCHANGED <<tracker_db, schedule_page, run_no, schedule_retry_count,
                   schedule_loaded, scorecard_links, link_idx, results,
                   retryVars, cacheVars, parserVars>>

\* the driver does not start: fetch_hrefs catches the exception and returns []
ScheduleDriverFails ==
    /\ pc = "schedule"
    /\ schedule_retry_count <= schedule_max_retries
    /\ schedule_fetches' = schedule_fetches + 1
    /\ pc' = "filter"
    /\ UNCHANGED <<tracker_db, schedule_page, run_no, load_attempt, schedule_retry_count,
                   schedule_loaded, scorecard_links, link_idx, results,
                   retryVars, cacheVars, parserVars>>

\* _load_page_with_retry: driver.get(url) returns
LoadPage ==
    /\ pc = "loading"
    /\ schedule_loaded' = TRUE
    /\ pc' = "filter"
    /\ UNCHANGED <<tracker_db, schedule_page, run_no, load_attempt, schedule_retry_count,
                   schedule_fetches, scorecard_links, link_idx, results,
                   retryVars, cacheVars, parserVars>>

\* _load_page_with_retry: driver.get(url) raises a TimeoutException or a
\* WebDriverException; after the last attempt an Exception is raised, which
\* fetch_hrefs catches and answers with []
LoadPageFails ==
    /\ pc = "loading"
    /\ IF load_attempt < ScheduleLoadAttempts
       THEN load_attempt' = load_attempt + 1 /\ pc' = pc
       ELSE load_attempt' = load_attempt /\ pc' = "filter"
    /\ UNCHANGED <<tracker_db, schedule_page, run_no, schedule_retry_count,
                   schedule_fetches, schedule_loaded, scorecard_links, link_idx, results,
                   retryVars, cacheVars, parserVars>>

\* fetch_hrefs has returned, the schedule loop breaks; the scorecard links are
\* filtered and counted, and without any the run returns
FilterLinks ==
    /\ pc = "filter"
    /\ LET match_links == fetch_hrefs(schedule_page, schedule_loaded)
       IN  /\ scorecard_links' = ScorecardLinks(match_links)
           /\ results' = [results EXCEPT !.total_found = Len(scorecard_links')]
           /\ IF Len(scorecard_links') = 0
              THEN pc' = "returned" /\ link_idx' = link_idx
              ELSE pc' = "match" /\ link_idx' = 1
    /\ UNCHANGED <<tracker_db, schedule_page, run_no, load_attempt, schedule_retry_count,
                   schedule_fetches, schedule_loaded, retryVars, cacheVars, parserVars>>

\* the link the match loop is at
CurrentUrl == scorecard_links[link_idx]

AtMatch == pc = "match" /\ link_idx \in 1..Len(scorecard_links)

\* a link without a match id passed over without being counted
NoMatchIdUncounted ==
    /\ AtMatch
    /\ extract_match_id(CurrentUrl) = None
    /\ link_idx' = link_idx + 1
    /\ UNCHANGED <<pc, tracker_db, schedule_page, run_no, load_attempt,
                   schedule_retry_count, schedule_fetches, schedule_loaded,
                   scorecard_links, results, retryVars, cacheVars, parserVars>>

\* if not match_id: failed += 1
NoMatchId ==
    /\ AtMatch
    /\ extract_match_id(CurrentUrl) = None
    /\ results' = [results EXCEPT !.failed = @ + 1]
    /\ link_idx' = link_idx + 1
    /\ UNCHANGED <<pc, tracker_db, schedule_page, run_no, load_attempt,
                   schedule_retry_count, schedule_fetches, schedule_loaded,
                   scorecard_links, retryVars, cacheVars, parserVars>>

\* if tracker.exists(match_id): skipped += 1
SkipTracked ==
    /\ AtMatch
    /\ extract_match_id(CurrentUrl) # None
    /\ TrackerExists(tracker_db, extract_match_id(CurrentUrl))
    /\ results' = [results EXCEPT !.skipped = @ + 1]
    /\ link_idx' = link_idx + 1
    /\ UNCHANGED <<pc, tracker_db, schedule_page, run_no, load_attempt,
                   schedule_retry_count, schedule_fetches, schedule_loaded,
                   scorecard_links, retryVars, cacheVars, parserVars>>

\* the call scrape_match_with_retry(url, match_id, tracker, MAX_RETRIES)
CallRetry ==
    /\ retry_match' = extract_match_id(CurrentUrl)
    /\ max_retries' = MAX_RETRIES
    /\ retry_count' = 0 /\ attempts' = 0
    /\ error' = NoError
    /\ outcome' = <<>>
    /\ pc' = "attempt"
    /\ UNCHANGED <<open_drivers, tracker_db, runLocalVars, cacheVars, parserVars>>

\* tracker.exists(match_id) is False: the match is downloaded
BeginDownload ==
    /\ AtMatch
    /\ extract_match_id(CurrentUrl) # None
    /\ ~TrackerExists(tracker_db, extract_match_id(CurrentUrl))
    /\ CallRetry

\* the query of exists() raises, exists() answers False for a match the
\* table holds, and the match is downloaded
ExistsQueryFails ==
    /\ AtMatch
    /\ extract_match_id(CurrentUrl) # None
    /\ TrackerExists(tracker_db, extract_match_id(CurrentUrl))
    /\ CallRetry

\* the locals of scrape_match_with_retry after it returned
RetryLocalsGone ==
    /\ retry_match' = <<>> /\ max_retries' = 0 /\ retry_count' = 0 /\ attempts' = 0
    /\ error' = <<>> /\ outcome' = <<>>

\* success: downloaded += 1
DownloadSucceeded ==
    /\ pc = "retry_returned"
    /\ run_no > 0
    /\ outcome[1] = "True"
    /\ results' = [results EXCEPT !.downloaded = @ + 1]
    /\ link_idx' = link_idx + 1
    /\ pc' = "match"
    /\ RetryLocalsGone
    /\ UNCHANGED <<open_drivers, tracker_db, schedule_page, run_no, load_attempt,
                   schedule_retry_count, schedule_fetches, schedule_loaded,
                   scorecard_links, cacheVars, parserVars>>

\* no success: tracker.mark_failed(match_id, error_msg, url); failed += 1
DownloadFailed ==
    /\ pc = "retry_returned"
    /\ run_no > 0
    /\ outcome[1] = "False"
    /\ tracker_db' = TrackerMarkFailed(tracker_db, retry_match)
    /\ results' = [results EXCEPT !.failed = @ + 1]
    /\ link_idx' = link_idx + 1
    /\ pc' = "match"
    /\ RetryLocalsGone
    /\ UNCHANGED <<open_drivers, schedule_page, run_no, load_attempt,
                   schedule_retry_count, schedule_fetches, schedule_loaded,
                   scorecard_links, cacheVars, parserVars>>

\* the loop is over: return results
FinishRun ==
    /\ pc = "match"
    /\ link_idx > Len(scorecard_links)
    /\ pc' = "returned"
    /\ UNCHANGED <<tracker_db, runLocalVars, retryVars, cacheVars, parserVars>>

\* the program is run again on the same tracker table
RunAgain ==
    /\ pc = "returned"
    /\ run_no < MaxRuns
    /\ run_no' = run_no + 1
    /\ load_attempt' = 0 /\ schedule_retry_count' = 0 /\ schedule_fetches' = 0
    /\ schedule_loaded' = FALSE /\ scorecard_links' = <<>> /\ link_idx' = 0
    /\ results' = <<>>
    /\ pc' = "run"
    /\ UNCHANGED <<tracker_db, schedule_page, retryVars, cacheVars, parserVars>>

NextRun ==
    \/ StartRun
    \/ TrackerInitFails
    \/ StartScheduleFetch
    \/ ScheduleDriverFails
    \/ LoadPage
    \/ LoadPageFails
    \/ FilterLinks
    \/ NoMatchId
    \/ SkipTracked
    \/ BeginDownload
    \/ ExistsQueryFails
    \/ NextRetry
    \/ DownloadSucceeded
    \/ DownloadFailed
    \/ FinishRun
    \/ RunAgain

SpecRun == InitRun /\ [][NextRun]_vars

-----------------------------------------------------------------------------
(* Properties of the photo-marker cleanup *)

\* a field that contains "see all photo" in some letter case
HasMarkerText(f) ==
    \E i \in 1..Len(f) :
        /\ i + Len(PhotoMarker) - 1 <= Len(f)
        /\ \A k \in 1..Len(PhotoMarker) : LowerChar(f[i + k - 1]) = PhotoMarker[k]

\* a field that is empty or made of whitespace only
OnlyWhitespace(f) == \A i \in 1..Len(f) : IsSpace(f[i])

\* C5: the photo-marker cleanup is idempotent, clean(clean(L)) = clean(L),
\* and no field of clean(L) contains 'see all photo' in any letter case.
C5_CleanupIdempotent ==
    pc = "cleaned" =>
        /\ _clean_photo_markers(cleaned) = cleaned
        /\ \A i \in 1..Len(cleaned) : ~HasMarkerText(cleaned[i])

\* a marker followed by a second marker was cleaned, and fields remain
C5_Witness ==
    /\ pc = "cleaned"
    /\ \E i \in 1..(Len(all_text) - 1) :
           HasMarkerText(all_text[i]) /\ HasMarkerText(all_text[i + 1])
    /\ cleaned # <<>>

\* positions of t the cleanup is said to keep: not a marker, and not a
\* blank field right after a marker
KeptPositions(t) ==
    {i \in 1..Len(t) :
        /\ ~HasMarkerText(t[i])
        /\ ~(i > 1 /\ HasMarkerText(t[i - 1]) /\ OnlyWhitespace(t[i]))}

NthKept(t, n) ==
    CHOOSE i \in KeptPositions(t) :
        Cardinality({j \in KeptPositions(t) : j < i}) = n - 1

\* C6: the cleanup removes every marker field, removes the field right after
\* a marker only when that field is empty or whitespace-only, and keeps
\* every other field unchanged in its original order (a marker in last
\* position is removed alone).
C6_CleanupRemovesMarkers ==
    pc = "cleaned" =>
        /\ Len(cleaned) = Cardinality(KeptPositions(all_text))
        /\ \A n \in 1..Len(cleaned) : cleaned[n] = all_text[NthKept(all_text, n)]

\* a marker followed by a whitespace-only field, a marker followed by a
\* field with content, and a marker in last position, all in one list
C6_Witness ==
    /\ pc = "cleaned"
    /\ Len(all_text) = 4
    /\ HasMarkerText(all_text[1]) /\ all_text[2] = sSpace
    /\ all_text[3] = sFour /\ HasMarkerText(all_text[4])
    /\ cleaned = <<sFour>>

-----------------------------------------------------------------------------
(* Properties of the Column Normalizer *)

\* parse_commentary has returned the normalized form of a non-empty batch
Normalized == pc \in {"parsed", "mapped"} /\ data # <<>>

LastOf(row) == row[Len(row)]

RowsOfWidth(rows, w) == {i \in 1..Len(rows) : Len(rows[i]) = w}

\* the width every normalized row has
Width == Len(normalized[1])

\* C1: for a non-empty batch all returned rows have one length, that length
\* is a most frequent row length of the batch, and the output has one row per
\* input row in the same order (each row starts with its own block index).
C1_UniformMajorityWidth ==
    Normalized =>
        /\ Len(normalized) = Len(data)
        /\ \A i \in 1..Len(normalized) : Len(normalized[i]) = Width
        /\ \A w \in 0..(MaxBlocks + 8) :
              Cardinality(RowsOfWidth(data, w)) <= Cardinality(RowsOfWidth(data, Width))
        /\ \A i \in 1..Len(data) : normalized[i][1] = data[i][1]

\* a batch with a padded row and a truncated row
C1_Witness ==
    /\ Normalized
    /\ \E i \in 1..Len(data) : Len(data[i]) < Len(normalized[i])
    /\ \E i \in 1..Len(data) : Len(data[i]) > Len(normalized[i])

\* a batch of exactly 3 rows of width 5 and 2 rows of width 6
ThreeFivesTwoSixes ==
    /\ Normalized
    /\ Len(data) = 5
    /\ Cardinality(RowsOfWidth(data, 5)) = 3
    /\ Cardinality(RowsOfWidth(data, 6)) = 2

\* C2 as stated: for 3 rows of width 5 and 2 rows of width 6 the target width
\* is 6 and each width-5 row gains one empty field before its last field.
C2_TargetSix ==
    ThreeFivesTwoSixes =>
        \A i \in 1..5 :
            /\ Len(normalized[i]) = 6
            /\ Len(data[i]) = 5 =>
                  normalized[i] = <<data[i][1], data[i][2], data[i][3], data[i][4],
                                    <<>>, data[i][5]>>

\* C2 amended: for 3 rows of width 5 and 2 rows of width 6 the target width
\* is 5; the width-5 rows are returned unchanged and each width-6 row is cut
\* to its first 5 fields.
C2_TargetFive ==
    ThreeFivesTwoSixes =>
        \A i \in 1..5 :
            /\ Len(normalized[i]) = 5
            /\ Len(data[i]) = 5 => normalized[i] = data[i]
            /\ Len(data[i]) = 6 =>
                  normalized[i] = <<data[i][1], data[i][2], data[i][3], data[i][4],
                                    data[i][5]>>

C2_Witness ==
    /\ ThreeFivesTwoSixes
    /\ Len(data[1]) = 6 /\ Len(normalized[1]) = 5
    /\ Len(data[2]) = 5 /\ normalized[2] = data[2]

\* C3 as stated: padded, truncated or unchanged, the last field of the
\* normalized row is the last field of the input row.
C3_LastFieldKept ==
    Normalized =>
        \A i \in 1..Len(data) : LastOf(normalized[i]) = LastOf(data[i])

\* C3 amended: the last field of the normalized row is the last field of the
\* input row when the row is padded or left unchanged; a row longer than the
\* target is cut to its first target fields, so its last field is the input
\* field at position target.
C3_LastFieldKeptUnlessCut ==
    Normalized =>
        \A i \in 1..Len(data) :
            /\ Len(data[i]) <= Width => LastOf(normalized[i]) = LastOf(data[i])
            /\ Len(data[i]) > Width => LastOf(normalized[i]) = data[i][Width]

\* a truncated row that lost its commentary, next to a padded row
C3_Witness ==
    /\ Normalized
    /\ \E i \in 1..Len(data) :
          /\ Len(data[i]) > Width
          /\ LastOf(normalized[i]) # LastOf(data[i])
    /\ \E i \in 1..Len(data) :
          /\ Len(data[i]) < Width
          /\ LastOf(normalized[i]) = LastOf(data[i])
          /\ LastOf(data[i]) # <<>>

\* C4: a row shorter than the target is returned as its fields except the
\* last, then (target - length) empty strings, then its last field.
C4_PaddingBeforeLast ==
    Normalized =>
        \A i \in 1..Len(data) :
            Len(data[i]) < Width =>
                /\ Len(normalized[i]) = Width
                /\ \A k \in 1..(Len(data[i]) - 1) : normalized[i][k] = data[i][k]
                /\ \A k \in Len(data[i])..(Width - 1) : normalized[i][k] = <<>>
                /\ normalized[i][Width] = data[i][Len(data[i])]

\* a row padded with at least two empty strings before a non-empty last field
C4_Witness ==
    /\ Normalized
    /\ \E i \in 1..Len(data) :
          /\ Len(data[i]) + 2 <= Width
          /\ LastOf(data[i]) # <<>>
          /\ LastOf(normalized[i]) = LastOf(data[i])
          /\ normalized[i][Width - 1] = <<>>

-----------------------------------------------------------------------------
(* Properties of extract_bowler_batsman *)

\* the literal separator ' to ' starts at position i of s
SeparatorAt(s, i) ==
    /\ i + 3 <= Len(s)
    /\ s[i] = " " /\ s[i + 1] = "t" /\ s[i + 2] = "o" /\ s[i + 3] = " "

HasSeparator(s) == \E i \in 1..Len(s) : SeparatorAt(s, i)

FirstSeparator(s) ==
    CHOOSE i \in 1..Len(s) :
        SeparatorAt(s, i) /\ \A j \in 1..(i - 1) : ~SeparatorAt(s, j)

\* s up to (not including) position n, or all of s when n = 0
Before(s, n) == IF n = 0 THEN s ELSE SubSeq(s, 1, n - 1)

FirstComma(s) ==
    IF \E i \in 1..Len(s) : s[i] = ","
    THEN CHOOSE i \in 1..Len(s) : s[i] = "," /\ \A j \in 1..(i - 1) : s[j] # ","
    ELSE 0

\* s without its leading and trailing whitespace
Trimmed(s) ==
    LET solid == {i \in 1..Len(s) : ~IsSpace(s[i])}
    IN  IF solid = {} THEN <<>>
        ELSE SubSeq(s, CHOOSE i \in solid : \A j \in solid : i <= j,
                       CHOOSE i \in solid : \A j \in solid : j <= i)

\* the segment between the first separator of s and the next one
SecondSegment(s) ==
    LET rest == SubSeq(s, FirstSeparator(s) + 4, Len(s))
    IN  IF HasSeparator(rest) THEN Before(rest, FirstSeparator(rest)) ELSE rest

\* C7: the bowler is the trimmed first segment and the batsman the trimmed
\* text of the second segment up to its first comma; both are null when the
\* event is empty or has no ' to ' separator.
C7_BowlerBatsman ==
    pc = "extracted" =>
        /\ IF event = None \/ event = <<>> \/ ~HasSeparator(event)
           THEN names = <<None, None>>
           ELSE /\ names[1] = Trimmed(Before(event, FirstSeparator(event)))
                /\ names[2] = Trimmed(Before(SecondSegment(event),
                                             FirstComma(SecondSegment(event))))
        /\ event = sBumrahKohli => names = <<sBumrah, sKohli>>
        /\ event = sNoRun => names = <<None, None>>

\* an event with two separators and a comma after the second one
C7_Witness ==
    /\ pc = "extracted"
    /\ event = sSpace \o sBumrah \o SepTo \o sKohli \o SepTo \o sBumrah \o sCommaNoRun
    /\ names = <<sBumrah, sKohli>>

-----------------------------------------------------------------------------
(* Properties of the Commentary-to-Table Mapper *)

Mapped == pc = "mapped" /\ normalized # <<>>

\* C8: a batch whose width is not 6 or 7 yields an empty record set: no
\* record for any row.
C8_OtherWidthEmpty ==
    (Mapped /\ \A i \in 1..Len(normalized) : Len(normalized[i]) \notin {6, 7})
        => df = <<>>

\* a batch of several rows of width 5 mapped to nothing
C8_Witness ==
    /\ Mapped
    /\ Len(normalized) >= 2
    /\ \A i \in 1..Len(normalized) : Len(normalized[i]) = 5
    /\ df = <<>>

\* C9: for a width-7 batch the commentary of each record is the row's
\* commentary field when non-empty and the row's extra (sixth) field
\* otherwise; match_ball_number, event and ball are fields 1 to 3.
C9_CommentaryFromExtra ==
    (Mapped /\ \A i \in 1..Len(normalized) : Len(normalized[i]) = 7) =>
        /\ Len(df) = Len(normalized)
        /\ \A i \in 1..Len(normalized) :
              /\ normalized[i][7] # <<>> => df[i].Commentary = normalized[i][7]
              /\ normalized[i][7] = <<>> => df[i].Commentary = normalized[i][6]
              /\ (normalized[i][7] = <<>> /\ normalized[i][6] = sSixRuns)
                    => df[i].Commentary = sSixRuns
              /\ df[i].match_ball_number = normalized[i][1]
              /\ df[i].Event = normalized[i][2]
              /\ df[i].Ball = normalized[i][3]

\* a width-7 batch holding a row with empty commentary and extra 'six runs'
\* and a row with its own commentary
C9_Witness ==
    /\ Mapped
    /\ \E i \in 1..Len(normalized) :
          /\ Len(normalized[i]) = 7
          /\ normalized[i][7] = <<>> /\ normalized[i][6] = sSixRuns
          /\ df[i].Commentary = sSixRuns
    /\ \E i \in 1..Len(normalized) :
          /\ Len(normalized[i]) = 7
          /\ normalized[i][7] # <<>>
          /\ df[i].Commentary = normalized[i][7]

-----------------------------------------------------------------------------
(* Properties of the Player Roster Extractor *)

KeyOf(entry) == <<entry.matchid, entry.player_name>>

ExtractedKeys == {KeyOf(all_players[i]) : i \in 1..Len(all_players)}

RosterRows(key) == {k \in 1..Len(df_unique) : KeyOf(df_unique[k]) = key}

\* C10: the roster holds exactly one record for every (matchid, player_name)
\* pair among the extracted entries, and that record is typed impact whenever
\* some extracted entry of the pair is typed impact.
C10_OneRecordPerPlayer ==
    pc = "done" =>
        /\ \A key \in ExtractedKeys : Cardinality(RosterRows(key)) = 1
        /\ \A k \in 1..Len(df_unique) : KeyOf(df_unique[k]) \in ExtractedKeys
        /\ \A i \in 1..Len(all_players) :
              all_players[i].player_type = "impact" =>
                  \A k \in RosterRows(KeyOf(all_players[i])) :
                      df_unique[k].player_type = "impact"

\* a player extracted first as regular and later as impact, merged into one
\* impact record next to a second player
C10_Witness ==
    /\ pc = "done"
    /\ \E i, j \in 1..Len(all_players) :
          /\ i < j
          /\ KeyOf(all_players[i]) = KeyOf(all_players[j])
          /\ all_players[i].player_type = "regular"
          /\ all_players[j].player_type = "impact"
          /\ \E k \in 1..Len(df_unique) :
                /\ KeyOf(df_unique[k]) = KeyOf(all_players[i])
                /\ df_unique[k].player_type = "impact"
    /\ Len(df_unique) = 2

-----------------------------------------------------------------------------
(* Properties of the team name resolver *)

\* the texts the cascade looks at, in the order it looks at them
Candidates(t) ==
    SubSeq(t.ancestors, 1, Min(AncestorLevels, Len(t.ancestors)))
        \o <<t.prev_span, t.prev_div_span>>

\* a candidate is accepted when its cleaned name has at least 3 characters
Accepted(c) == c # None /\ c # <<>> /\ Len(CleanedTeam(c)) >= 3

\* the candidates that are accepted and whose lookup ran to its end
Yielding(t) ==
    {k \in 1..Len(Candidates(t)) :
        (t.raises = 0 \/ k < t.raises) /\ Accepted(Candidates(t)[k])}

DefaultName(n) == <<"T","e","a","m"," ">> \o IntToStr(n)

\* C11: the resolver returns 'Team {ordinal}' whenever none of its three
\* strategies yields an accepted name, also when a strategy raises, and its
\* result is never null or empty.
C11_DefaultTeamName ==
    pc = "resolved" =>
        /\ Yielding(resolver_table) = {} => resolved_team = DefaultName(resolver_innings)
        /\ resolved_team # None /\ resolved_team # <<>>

\* a lookup raised before any strategy had produced a name although a later
\* candidate would have been accepted, and the default was returned
C11_Witness ==
    /\ pc = "resolved"
    /\ resolver_table.raises > 0
    /\ Yielding(resolver_table) = {}
    /\ \E k \in 1..Len(Candidates(resolver_table)) : Accepted(Candidates(resolver_table)[k])
    /\ resolved_team = DefaultName(resolver_innings)

\* C20: the resolver returns the candidate of the earliest strategy that
\* yields an accepted name: parents from nearest to farthest, at most 10
\* levels, then the previous name span, then the previous header div's name
\* span; a candidate whose cleaned name has fewer than 3 characters is
\* rejected and the cascade goes on to the next level or strategy.
C20_EarliestAcceptedWins ==
    pc = "resolved" /\ Yielding(resolver_table) # {} =>
        \E k \in Yielding(resolver_table) :
            /\ \A j \in Yielding(resolver_table) : k <= j
            /\ resolved_team = CleanedTeam(Candidates(resolver_table)[k])

\* a rejected short name under the nearest parent, and the name returned
\* comes from a later candidate
C20_Witness ==
    /\ pc = "resolved"
    /\ resolver_table.raises = 0
    /\ Len(resolver_table.ancestors) >= 1
    /\ resolver_table.ancestors[1] # None
    /\ ~Accepted(resolver_table.ancestors[1])
    /\ Yielding(resolver_table) # {}
    /\ resolved_team # DefaultName(resolver_innings)

\* the header of the parent just beyond the levels visited is not used
C20_LevelLimitWitness ==
    /\ pc = "resolved"
    /\ Len(resolver_table.ancestors) > AncestorLevels
    /\ Accepted(resolver_table.ancestors[AncestorLevels + 1])
    /\ resolved_team = DefaultName(resolver_innings)

-----------------------------------------------------------------------------
(* Properties of name cleaning *)

\* sub occurs in s, letter case ignored
ContainsNoCase(s, sub) ==
    \E i \in 1..Len(s) : StartsWithNoCase(SubSeq(s, i, Len(s)), sub)

\* what a cleaned name is to look like
WellFormedName(n) ==
    /\ Len(n) >= 2
    /\ ~ContainsNoCase(n, <<"(","c",")">>)
    /\ ~ContainsNoCase(n, <<"(","w","k",")">>)
    /\ n[1] \notin {",", ";"} /\ n[Len(n)] \notin {",", ";"}
    /\ ~IsSpace(n[1]) /\ ~IsSpace(n[Len(n)])
    /\ \A i \in 1..(Len(n) - 1) : ~(IsSpace(n[i]) /\ IsSpace(n[i + 1]))
    /\ Lower(n) \notin {<<"b","a","t","t","e","r">>, <<"b","a","t","s","m","a","n">>,
                        <<"b","a","t","t","e","r","s">>, <<"n","a","m","e">>,
                        <<"b","o","w","l","e","r">>}

\* C12: name cleaning returns null or a name of at least 2 characters with
\* no '(c)' or '(wk)' marker in any letter case, no comma or semicolon at
\* either end, no leading, trailing or repeated whitespace, that is not a
\* header label; 'Smith (c)*,' gives 'Smith' and 'BOWLER' gives null.
C12_CleanNameContract ==
    pc = "named" =>
        /\ clean_name = None \/ WellFormedName(clean_name)
        /\ raw_name = <<"S","m","i","t","h"," ","(","c",")","*",",">>
               => clean_name = <<"S","m","i","t","h">>
        /\ raw_name = <<"B","O","W","L","E","R">> => clean_name = None

-----------------------------------------------------------------------------
(* Properties of extract_metadata *)

\* extract_metadata has returned, normally or through its except clause
Described == pc \in {"described", "details_failed"}

\* C15: the mapping returned by extract_metadata always maps MatchID to the
\* match identifier supplied: when the details panel is present (a scraped
\* label named MatchID is overridden), when the panel is missing (the
\* mapping then holds MatchID alone), and when extraction fails internally.
C15_MatchIdInjected ==
    Described =>
        /\ <<"M","a","t","c","h","I","D">> \in DOMAIN metadata
        /\ metadata[<<"M","a","t","c","h","I","D">>] = details_id
        /\ details_rows = <<>> => DOMAIN metadata = {<<"M","a","t","c","h","I","D">>}
        /\ pc = "details_failed" => DOMAIN metadata = {<<"M","a","t","c","h","I","D">>}

\* the panel has a row labelled MatchID with another value, and the mapping
\* was returned after the loop
C15_Witness ==
    /\ pc = "described"
    /\ \E i \in 1..Len(details_rows) :
           /\ Len(details_rows[i]) = 2
           /\ details_rows[i][1] = <<"M","a","t","c","h","I","D">>
           /\ details_rows[i][2] # details_id
    /\ Cardinality(DOMAIN metadata) >= 2

\* the except clause returned the mapping after rows had been read
C15_FailureWitness ==
    /\ pc = "details_failed"
    /\ row_idx > 1

-----------------------------------------------------------------------------
(* Properties of the batting positions *)

\* the batting table of innings i has been processed
Processed(i) ==
    \/ pc \in {"bowling", "dedupe", "done"}
    \/ pc = "batting" /\ table_idx > i

\* the entries of innings i emitted as batted, by their place in all_players
BattedIdx(i) ==
    {n \in 1..Len(all_players) :
        all_players[n].innings = InningsKey(i) /\ all_players[n].batted}

\* the cells of batting table i that name a player who batted
EmittingCells(i) ==
    {c \in 1..Len(batting_tables[i].cells) :
        LET cell == batting_tables[i].cells[c]
        IN  ~cell.colspan /\ cell.link /\ _clean_player_name(LinkName(cell)) # None}

\* the place of n among the members of S
Rank(n, S) == Cardinality({m \in S : m <= n})

\* C14: within one batting table the players emitted as batted receive
\* batting_position 1, 2, ..., k in document order without gap or repeat (a
\* colspan placeholder, a cell without player link and a cell whose name is
\* rejected consume no position), and every did-not-bat or bowler entry has
\* batting_position null.
C14_SequentialPositions ==
    /\ \A i \in 1..Len(batting_tables) : Processed(i) =>
           /\ Cardinality(BattedIdx(i)) = Cardinality(EmittingCells(i))
           /\ \A n \in BattedIdx(i) :
                 /\ all_players[n].batting_position = Rank(n, BattedIdx(i))
                 /\ \E c \in EmittingCells(i) :
                       /\ Rank(c, EmittingCells(i)) = Rank(n, BattedIdx(i))
                       /\ all_players[n].player_name =
                              _clean_player_name(LinkName(batting_tables[i].cells[c]))
    /\ \A n \in 1..Len(all_players) :
           ~all_players[n].batted => all_players[n].batting_position = NoPosition

\* a table whose first cells are a colspan placeholder, a cell without link
\* and a header label, followed by the first batter; did-not-bat and bowler
\* entries are present
C14_Witness ==
    /\ pc = "done"
    /\ \E i \in 1..Len(batting_tables) :
           /\ \E c \in EmittingCells(i) : c > 1 /\ Rank(c, EmittingCells(i)) = 1
           /\ \E n \in BattedIdx(i) : all_players[n].batting_position = 1
    /\ \E i \in 1..Len(batting_tables) : Cardinality(BattedIdx(i)) = 2
    /\ \E n \in 1..Len(all_players) :
           ~all_players[n].batted /\ all_players[n].bowled = "True"
    /\ \E n \in 1..Len(all_players) :
           ~all_players[n].batted /\ all_players[n].bowled = "None"

-----------------------------------------------------------------------------
(* Properties of the error handling *)

\* C13: for every input, a page without commentary blocks or scorecard
\* tables and a failing parse included, parse_commentary, to_dataframe,
\* extract_metadata and extract_player_names return a (possibly empty)
\* result and never hand an exception to the caller; missing blocks or
\* tables are reported as zero rows.
C13_NoExceptionEscapes ==
    /\ pc # "raised"
    /\ pc = "parse_failed" => normalized = <<>>
    /\ pc = "map_failed" => df = <<>>
    /\ pc = "roster_failed" => df_unique = <<>>
    /\ pc = "details_failed" => DOMAIN metadata = {<<"M","a","t","c","h","I","D">>}
    /\ pc = "parsed" /\ idx = 0 => normalized = <<>>
    /\ pc = "mapped" /\ normalized = <<>> => df = <<>>
    /\ pc = "done" /\ batting_tables = <<>> => df_unique = <<>>

\* to_dataframe failed on rows that parse_commentary had returned
C13_Witness ==
    /\ pc = "map_failed"
    /\ normalized # <<>>

\* the roster extraction failed after entries had been extracted
C13_RosterWitness ==
    /\ pc = "roster_failed"
    /\ all_players # <<>>

\* the page has no commentary block and no row is returned
C13_NoBlocksWitness ==
    /\ pc = "mapped" /\ idx = 0 /\ df = <<>>

-----------------------------------------------------------------------------
(* Properties of scrape_match_with_retry *)

\* scrape_match_with_retry has returned
RetryReturned == pc = "retry_returned"

\* what holds in every state of a call: the attempts made, the reason for
\* another attempt, the pair returned
RetryDiscipline ==
    /\ attempts <= max_retries + 1
    /\ pc = "attempt" /\ attempts >= 1 =>
           /\ is_connection_error(error)
           /\ retry_count = attempts
           /\ retry_count <= max_retries
    /\ pc = "handle" /\ ~is_connection_error(error) => attempts = retry_count + 1
    /\ RetryReturned =>
           \/ outcome = <<"True", None>> /\ error = NoError
           \/ /\ Len(outcome) = 2 /\ outcome[1] = "False"
              /\ outcome[2] # None /\ outcome[2] # <<>>
              /\ error # NoError
              /\ ~is_connection_error(error) \/ attempts = max_retries + 1

\* C18: scrape_match_with_retry starts another attempt only after a
\* failure that is_connection_error classifies as retryable and only while
\* fewer than max_retries retries have been made; it makes at most
\* max_retries + 1 attempts and always returns, (True, None) after the first
\* attempt that succeeds and (False, message) otherwise; a non-retryable
\* error ends the call after the attempt in which it occurs.
C18_BoundedRetries == []RetryDiscipline /\ <>RetryReturned

\* every allowed attempt was made and failed with a retryable error
C18_Witness ==
    /\ RetryReturned
    /\ max_retries = MAX_RETRIES
    /\ attempts = MAX_RETRIES + 1
    /\ outcome[1] = "False"

\* an attempt succeeded after two retries
C18_SuccessWitness ==
    /\ RetryReturned
    /\ attempts = 3
    /\ outcome = <<"True", None>>

\* a non-retryable error ended the call at the first attempt although
\* retries were allowed
C18_NonRetryableWitness ==
    /\ RetryReturned
    /\ max_retries = MAX_RETRIES
    /\ attempts = 1
    /\ outcome[1] = "False"

-----------------------------------------------------------------------------
(* Properties of the driver lifecycle *)

-----------------------------------------------------------------------------
(* Properties of the schedule fetch of scrape_cricket_data *)

\* C17: a run whose schedule page never loaded has fetched the schedule
\* schedule_max_retries + 1 times and returns status 'failed'
C17_ScheduleFailureReported ==
    (pc = "returned" /\ schedule_fetches > 0 /\ ~schedule_loaded)
        => (schedule_fetches = schedule_max_retries + 1 /\ results.status = "failed")

-----------------------------------------------------------------------------
(* Properties of the skip test of scrape_cricket_data *)

\* C16: a link is skipped as already downloaded only when the tracker holds
\* its match with status 'completed'
C16_SkipOnlyCompleted ==
    [][(AtMatch /\ pc' = "match" /\ results'.skipped > results.skipped)
          => tracker_db[extract_match_id(CurrentUrl)] = "completed"]_vars

-----------------------------------------------------------------------------
(* Properties of the team-name cleaning *)

sSecondInningsIndia == <<"2","n","d"," ","I","n","n","i","n","g","s"," ","I","n","d","i","a">>
sIndiaSecondInnings == <<"I","n","d","i","a"," ","2","n","d"," ","I","n","n","i","n","g","s">>

\* a number, with or without an ordinal suffix
IsOrdinal(w) ==
    /\ DigitRun(w) >= 1
    /\ Lower(SubSeq(w, DigitRun(w) + 1, Len(w))) \in OrdinalSuffixes \cup {<<>>}

\* an innings-ordinal phrase is left in s: an ordinal and then the word
\* Innings
HasInningsPhrase(s) ==
    \E i \in 1..(Len(Words(s)) - 1) :
        IsOrdinal(Words(s)[i]) /\ Lower(Words(s)[i + 1]) = sInningsLower

\* C21: a cleaned team name holds no innings-ordinal phrase and no run of
\* whitespace, and '2nd Innings India' and 'India 2nd Innings' both clean to
\* 'India'
C21_InningsPhraseStripped ==
    (pc = "team_named" /\ clean_team # None)
        => /\ ~HasInningsPhrase(clean_team)
           /\ clean_team = JoinWith(Words(clean_team), <<" ">>)
           /\ raw_team \in {sSecondInningsIndia, sIndiaSecondInnings} => clean_team = sIndia

-----------------------------------------------------------------------------
(* Properties of the bowling-team assignment *)

\* the bowlers extracted so far from the i-th bowling table
BowlersOf(i) ==
    {k \in 1..Len(all_players) :
        all_players[k].bowled = "True" /\ all_players[k].innings = InningsKey(i)}

\* the batting team of innings i, None without one
BattingTeamOf(i) == IF i <= Len(batting_teams) THEN batting_teams[i] ELSE None

\* no bowling team can be told for innings i
NoOpposite(i) ==
    \/ Len(batting_teams) < 2
    \/ BattingTeamOf(i) = None
    \/ \A k \in 1..Len(batting_teams) : batting_teams[k] = BattingTeamOf(i)

\* C22: the bowlers of the i-th bowling table carry a listed batting team
\* other than the i-th batting team, and 'Unknown Team' when fewer than two
\* teams are known, no i-th batting team exists or no listed team differs
C22_BowlingTeamOpposite ==
    \A i \in 1..Len(bowling_tables) : \A k \in BowlersOf(i) :
        /\ all_players[k].team # BattingTeamOf(i)
        /\ IF NoOpposite(i)
           THEN all_players[k].team = sUnknownTeam
           ELSE \E j \in 1..Len(batting_teams) : all_players[k].team = batting_teams[j]

\* two innings of different teams, each with bowlers of the other team
C22_Witness ==
    /\ pc = "done"
    /\ Len(batting_teams) = 2 /\ batting_teams[1] # batting_teams[2]
    /\ \E k \in BowlersOf(1) : all_players[k].team = batting_teams[2]
    /\ \E k \in BowlersOf(2) : all_players[k].team = batting_teams[1]

\* a bowling table without a batting table at its index
C22_UnknownWitness ==
    /\ pc = "done"
    /\ Len(batting_teams) = 1
    /\ \E k \in BowlersOf(2) : all_players[k].team = sUnknownTeam

\* both innings batted by the same team: no listed team differs
C22_SameTeamWitness ==
    /\ pc = "done"
    /\ Len(batting_teams) = 2 /\ batting_teams[1] = batting_teams[2]
    /\ \E k \in BowlersOf(1) : all_players[k].team = sUnknownTeam

-----------------------------------------------------------------------------
(* Properties of the impact-player test *)

\* the cell holds an icon that carries the three marker classes together
HasImpactIcon(td) ==
    td.present /\ \E k \in 1..Len(td.icons) : RequiredClasses \subseteq td.icons[k]

\* C23: the test answers true exactly for a cell that holds an icon carrying
\* the three marker classes together, and false for a missing cell
C23_ImpactIffFullIcon ==
    pc = "impact_checked" => (impact_player <=> HasImpactIcon(td_element))

-----------------------------------------------------------------------------
(* Properties of the block loop of parse_commentary *)

\* the loop moves on to the next block
NextBlock == pc = "parse" /\ idx' = idx + 1

\* the row of the block was built and cleaned: no exception in the loop body
RowBuilt == all_text' # all_text

\* C24: a block adds its cleaned row at the end of data exactly when the row
\* was built and has at least 2 non-empty fields; any other block leaves data
\* as it was, so the rows of the other blocks stay, in document order
C24_RowIffTwoNonEmpty ==
    [][NextBlock =>
          IF RowBuilt /\ NonEmptyCount(cleaned') >= 2
          THEN data' = Append(data, cleaned')
          ELSE data' = data]_vars

\* three blocks read: the first kept, the second dropped because the cleanup
\* leaves it one non-empty field, the third kept after it
C24_Witness ==
    /\ pc = "parse" /\ idx = 3
    /\ Len(data) = 2
    /\ data[1][1] = IntToStr(0) /\ data[2][1] = IntToStr(2)
    /\ NonEmptyCount(data[1]) >= 2 /\ NonEmptyCount(data[2]) >= 2

\* a row with two non-empty fields before the cleanup and one after it is
\* not added
C24_CleanupWitness ==
    /\ pc = "parse" /\ idx = 1
    /\ NonEmptyCount(all_text) >= 2 /\ NonEmptyCount(cleaned) = 1
    /\ data = <<>>

-----------------------------------------------------------------------------
(* Properties of the target width under ties *)

\* the number of rows of the batch that are as long as row r
SameLength(r) == Cardinality({i \in 1..Len(data) : Len(data[i]) = Len(data[r])})

\* row r has a length of the highest frequency
MostFrequent(r) == \A i \in 1..Len(data) : SameLength(i) <= SameLength(r)

\* the earliest row of the batch whose length has the highest frequency
FirstMostFrequent ==
    CHOOSE r \in 1..Len(data) :
        MostFrequent(r) /\ \A i \in 1..(r - 1) : ~MostFrequent(i)

\* two lengths share the highest frequency
Tied ==
    \E r, q \in 1..Len(data) :
        MostFrequent(r) /\ MostFrequent(q) /\ Len(data[r]) # Len(data[q])

\* C25: when lengths tie for the highest frequency, every normalized row has
\* the tied length whose first row comes earliest in the batch
C25_TieFirstInserted ==
    (pc = "parsed" /\ data # <<>> /\ Tied)
        => \A i \in 1..Len(normalized) :
              Len(normalized[i]) = Len(data[FirstMostFrequent])

\* a tie won by the larger of the tied lengths
C25_Witness ==
    /\ pc = "parsed" /\ data # <<>> /\ Tied
    /\ \E q \in 1..Len(data) :
          MostFrequent(q) /\ Len(data[q]) < Len(data[FirstMostFrequent])
    /\ \A i \in 1..Len(normalized) : Len(normalized[i]) = Len(data[FirstMostFrequent])

\* a tie won by the smaller of the tied lengths
C25_SmallerWitness ==
    /\ pc = "parsed" /\ data # <<>> /\ Tied
    /\ \E q \in 1..Len(data) :
          MostFrequent(q) /\ Len(data[q]) > Len(data[FirstMostFrequent])
    /\ \A i \in 1..Len(normalized) : Len(normalized[i]) = Len(data[FirstMostFrequent])

-----------------------------------------------------------------------------
(* Properties of the tracker cache *)

\* the cache is loaded and holds the match ids of the table
CacheInStep == tracker_cache.loaded /\ tracker_cache.ids = DOMAIN tracker_db

\* a call of add, mark_failed, delete_match or exists, successful or failing
TrackerUse == Add \/ MarkFailed \/ DeleteMatch \/ WriteFails \/ Exists

\* C26: a loaded cache that holds the match ids of the table still holds them
\* after a call of add, mark_failed or delete_match, whether the call wrote
\* or failed, and exists answers from it what the table would answer
C26_CacheTracksTable ==
    [][(CacheInStep /\ TrackerUse)
          => /\ tracker_cache'.ids = DOMAIN tracker_db'
             /\ Exists => exists_answer' = (exists_id' \in DOMAIN tracker_db')]_vars

-----------------------------------------------------------------------------
(* Properties of the tracking of a downloaded match *)

\* C27: when the call returns (True, None) the tracker holds the match with
\* status 'completed'
C27_SuccessIsTracked ==
    (pc = "retry_returned" /\ outcome = <<"True", None>>)
        => /\ TrackerExists(tracker_db, retry_match)
           /\ tracker_db[retry_match] = "completed"

-----------------------------------------------------------------------------
(* Properties of the counters of scrape_cricket_data *)

\* the links the match loop has dealt with
LinksDone == link_idx - 1

\* C28: in the match loop and after it, downloaded + skipped + failed is the
\* number of links dealt with, which is total_found once the loop is over
C28_CountersAddUp ==
    /\ AtMatch => results.downloaded + results.skipped + results.failed = LinksDone
    /\ (pc \in {"match", "returned"} /\ link_idx > Len(scorecard_links))
          => results.downloaded + results.skipped + results.failed = results.total_found

\* a run over two links, one downloaded and one failed
C28_Witness ==
    /\ pc = "returned" /\ results.total_found = 2
    /\ results.downloaded = 1 /\ results.failed = 1 /\ results.skipped = 0

\* a run over two links, one skipped and one without a match id
C28_SkippedWitness ==
    /\ pc = "returned" /\ results.total_found = 2
    /\ results.skipped = 1 /\ results.failed = 1
    /\ \E i \in 1..Len(scorecard_links) : extract_match_id(scorecard_links[i]) = None

-----------------------------------------------------------------------------
(* Properties of deduplication : batted records *)

\* the keys with at least one extracted entry of a player who batted
BattedKeys == {KeyOf(all_players[i]) : i \in {n \in 1..Len(all_players) : all_players[n].batted}}

\* C29: in the returned roster every player with at least one extracted
\* batted entry is kept with batted = true and a batting position, whatever
\* did-not-bat or bowler entries (impact ones included) share the player's key.
C29_BattedRecordKept ==
    pc = "done" =>
        \A key \in BattedKeys :
            \A k \in RosterRows(key) :
                df_unique[k].batted /\ df_unique[k].batting_position # NoPosition

-----------------------------------------------------------------------------
(* Properties of _clean_player_name : a second pass *)

\* C30: name cleaning is idempotent: whenever _clean_player_name returns a
\* name, cleaning that name again returns the same name; a cleaned name is
\* neither changed nor rejected by a second pass.
C30_CleanNameIdempotent ==
    (pc = "named_again" /\ clean_name # None) => second_name = clean_name

====
